---- MODULE Spec2Model ----
(***************************************************************************)
(* Generic-hash procedure synthesis of compiler/gen_llvm (build_hash.rs).  *)
(* The generator is a recursive tree walk over a layout description; it is *)
(* modelled as a stack machine whose frames are the activations of the     *)
(* source's functions and whose steps are the code between two nested      *)
(* calls.  The LLVM module is a list of functions, each a list of basic    *)
(* blocks, each a list of instructions; the builder is an insertion point. *)
(***************************************************************************)
EXTENDS Integers, Sequences, FiniteSets, TLC

(***************************************************************************)
(* Bounds                                                                  *)
(***************************************************************************)
MaxRequests == 2

(***************************************************************************)
(* Layout model (roc_mono::layout, as matched on by build_hash.rs)         *)
(***************************************************************************)
Builtin(b) == [k |-> "Builtin", b |-> b]
List(element_layout) == [k |-> "Builtin", b |-> "List", element_layout |-> element_layout]
Struct(field_layouts) == [k |-> "Struct", field_layouts |-> field_layouts]
Union(union_layout) == [k |-> "Union", union_layout |-> union_layout]
RecursivePointer == [k |-> "RecursivePointer"]
FunctionPointer == [k |-> "FunctionPointer"]
Closure == [k |-> "Closure"]

NonRecursive(tags) == [t |-> "NonRecursive", tags |-> tags]
Recursive(tags) == [t |-> "Recursive", tags |-> tags]
NullableWrapped(nullable_id, other_tags) ==
    [t |-> "NullableWrapped", nullable_id |-> nullable_id, other_tags |-> other_tags]
NullableUnwrapped(nullable_id, other_fields) ==
    [t |-> "NullableUnwrapped", nullable_id |-> nullable_id, other_fields |-> other_fields]
NonNullableUnwrapped(field_layouts) ==
    [t |-> "NonNullableUnwrapped", field_layouts |-> field_layouts]

ScalarBuiltins ==
    {"Int128", "Int64", "Int32", "Int16", "Int8", "Int1",
     "Float64", "Float32", "Float128", "Float16", "Usize"}
EmptyBuiltins == {"EmptyStr", "EmptyDict", "EmptyList", "EmptySet"}

Int64 == Builtin("Int64")
Int8 == Builtin("Int8")
Str == Builtin("Str")

\* WhenRecursive
Unreachable == [w |-> "Unreachable"]
Loop(union_layout) == [w |-> "Loop", union_layout |-> union_layout]

\* Layout::stack_size for the scalar builtins (bytes)
stack_size(layout) ==
    CASE layout.b \in {"Int128", "Float128"} -> 16
      [] layout.b \in {"Int64", "Float64", "Usize"} -> 8
      [] layout.b \in {"Int32", "Float32"} -> 4
      [] layout.b \in {"Int16", "Float16"} -> 2
      [] OTHER -> 1

(***************************************************************************)
(* The layouts a compilation unit asks hashes for                          *)
(***************************************************************************)
IntStr == <<Int64, Str>>
ConsFields == <<Int64, RecursivePointer>>

\* Nil | Cons(Int, self): other_fields carries the tag-id slot first
ConsList == NullableUnwrapped(TRUE, <<Int64, Int64, RecursivePointer>>)
\* two pointer variants sharing the Cons shape
RecTree == Recursive(<<ConsFields, <<Int64>>>>)
NullWrap == NullableWrapped(0, <<ConsFields, <<Str>>>>)
\* a rose tree: the children are a list of pointers to self
Rose == NonNullableUnwrapped(<<Int64, List(RecursivePointer)>>)
NonRec == NonRecursive(<<<<Int8>>, <<Str, Int64>>>>)
\* a union with one variant
Single == NonRecursive(<<<<Int64>>>>)
\* the nullable unions again with the other variant designated as the null one
ConsListAlt == NullableUnwrapped(FALSE, <<Int64, Int64, RecursivePointer>>)
NullWrapAlt == NullableWrapped(1, <<ConsFields, <<Str>>>>)
\* a recursive union whose variant holds a non-recursive union that points back
Wrapped == Recursive(<<<<Union(NonRecursive(<<<<RecursivePointer>>, <<>>>>))>>>>)
WrappedList == NonNullableUnwrapped(<<Union(NonRecursive(<<<<List(RecursivePointer)>>>>))>>)

RequestLayouts ==
    { Int64, Str,
      Builtin("EmptyStr"), Builtin("EmptyDict"), Builtin("EmptyList"), Builtin("EmptySet"),
      Builtin("Dict"), Builtin("Set"), FunctionPointer, Closure,
      Struct(<<>>), Struct(IntStr), Struct(<<Int8, Struct(IntStr), Int64>>),
      Struct(<<Int64, Builtin("Set")>>),
      List(Int64), List(Struct(IntStr)), List(Builtin("Dict")), List(Builtin("EmptyList")),
      Union(NonRec), Union(RecTree), Union(ConsList), Union(NullWrap), Union(Rose),
      Union(Wrapped), Union(WrappedList),
      Union(Single), Union(ConsListAlt), Union(NullWrapAlt) }

(***************************************************************************)
(* State                                                                   *)
(***************************************************************************)
VARIABLES
    module,     \* env.module: the functions, in creation order
    builder,    \* env.builder: the insertion point [fn, blk]
    stack,      \* activations of the generator's functions, innermost last
    retval,     \* the value the activation that returned last has returned
    status,     \* "idle", "running" or "panicked"
    panic,      \* the message of the panic that aborted generation
    requests,   \* the layouts generic_hash has been called with
    steps,      \* the steps the generator has taken for the current request
    storage,    \* roc_std: a Storage value
    calls,      \* the calls made on the storage, with what they returned
    buf,        \* fmt: the text in the buffer
    origin,     \* for every character of buf, the item that it was pushed for
    fmt         \* the activation of the formatting function

generator_vars == <<module, builder, stack, retval, status, panic, requests, steps>>
storage_vars == <<storage, calls>>
fmt_vars == <<buf, origin, fmt>>
vars == <<generator_vars, storage_vars, fmt_vars>>

(***************************************************************************)
(* Builder and module primitives (inkwell)                                 *)
(***************************************************************************)
NoValue == <<"unit">>
Param(i) == <<"arg", i>>
Const(n) == <<"const", n>>

\* the value defined by the next instruction appended at pos
NextValue(m, pos) == <<"ins", pos.blk, Len(m[pos.fn].blocks[pos.blk].instrs) + 1>>

\* builder.build_*: append one instruction at the insertion point
Emit(m, pos, ins) ==
    [m EXCEPT ![pos.fn].blocks[pos.blk].instrs = Append(@, ins)]

\* context.append_basic_block(parent, label)
append_basic_block(m, parent, label) ==
    [m EXCEPT ![parent].blocks = Append(@, [label |-> label, instrs |-> <<>>])]

LastBlock(m, parent) == Len(m[parent].blocks)

\* every pair filed under the entry block
add_incoming_entry(m, parent, phi, answer, block) ==
    [m EXCEPT ![parent].blocks[phi[2]].instrs[phi[3]].incoming = Append(@, <<answer, 1>>)]

\* merge_phi.add_incoming(&[(&answer, block)])
add_incoming(m, parent, phi, answer, block) ==
    [m EXCEPT ![parent].blocks[phi[2]].instrs[phi[3]].incoming = Append(@, <<answer, block>>)]

\* LayoutIds::get(symbol, layout).to_symbol_string: one name per distinct layout
FnName(layout) == layout

\* a lookup that never finds the procedure
get_function_never(m, fn_name) == 0

\* a lookup that finds a procedure only once its body is finished
get_function_unfinished(m, fn_name) ==
    IF \E i \in 1..Len(m) :
         /\ m[i].name = fn_name
         /\ \E b \in 1..Len(m[i].blocks) :
              \E k \in 1..Len(m[i].blocks[b].instrs) : m[i].blocks[b].instrs[k].op = "ret"
    THEN CHOOSE i \in 1..Len(m) :
           /\ m[i].name = fn_name
           /\ \E b \in 1..Len(m[i].blocks) :
                \E k \in 1..Len(m[i].blocks[b].instrs) : m[i].blocks[b].instrs[k].op = "ret"
    ELSE 0

\* env.module.get_function(name): the first function of that name, 0 when absent
get_function(m, fn_name) ==
    IF \E i \in 1..Len(m) : m[i].name = fn_name
    THEN CHOOSE i \in 1..Len(m) : m[i].name = fn_name /\ \A j \in 1..(i - 1) : m[j].name # fn_name
    ELSE 0

\* refcounting::build_header_help: add a function of that name to the module
build_header_help(m, fn_name, return_type, arguments) ==
    Append(m, [name |-> fn_name, return_type |-> return_type,
               params |-> Len(arguments), blocks |-> <<>>])

CallerName == [k |-> "Caller"]

(***************************************************************************)
(* Stack                                                                   *)
(***************************************************************************)
Top == stack[Len(stack)]
Pop == SubSeq(stack, 1, Len(stack) - 1)
Running(fname) == status = "running" /\ stack # <<>> /\ Top.fn = fname

\* return v from the innermost activation
Return(v) ==
    /\ stack' = Pop
    /\ retval' = v
    /\ status' = IF Len(stack) = 1 THEN "idle" ELSE "running"
    /\ panic' = panic
    /\ steps' = steps + 1
    /\ UNCHANGED <<storage_vars, fmt_vars>>

\* replace the innermost activation by fs (its new self followed by its callees)
Continue(fs) ==
    /\ stack' = Pop \o fs
    /\ status' = status
    /\ panic' = panic
    /\ steps' = steps + 1
    /\ UNCHANGED <<storage_vars, fmt_vars>>

\* unreachable!() / todo!()
Panic(msg) ==
    /\ status' = "panicked"
    /\ panic' = msg
    /\ steps' = steps + 1
    /\ UNCHANGED <<module, builder, stack, retval, requests>>
    /\ UNCHANGED <<storage_vars, fmt_vars>>

(***************************************************************************)
(* Activation records                                                      *)
(***************************************************************************)
LayoutFrame(seed, val, layout, when_recursive) ==
    [fn |-> "build_hash_layout", seed |-> seed, val |-> val, layout |-> layout,
     when_recursive |-> when_recursive]

\* append_hash_layout forwards to build_hash_layout
append_hash_layout(seed, val, layout, when_recursive) ==
    LayoutFrame(seed, val, layout, when_recursive)

StructFrame(field_layouts, when_recursive, seed, value) ==
    [fn |-> "build_hash_struct", pc |-> "start", field_layouts |-> field_layouts,
     when_recursive |-> when_recursive, seed |-> seed, value |-> value,
     block |-> [fn |-> 0, blk |-> 0], function |-> 0]

TagFrame(layout, union_layout, seed, value) ==
    [fn |-> "build_hash_tag", pc |-> "start", layout |-> layout,
     union_layout |-> union_layout, seed |-> seed, value |-> value,
     block |-> [fn |-> 0, blk |-> 0], function |-> 0]

ListFrame(layout, element_layout, when_recursive, seed, value) ==
    [fn |-> "build_hash_list", pc |-> "start", layout |-> layout,
     element_layout |-> element_layout, when_recursive |-> when_recursive,
     seed |-> seed, value |-> value, block |-> [fn |-> 0, blk |-> 0], function |-> 0]

(***************************************************************************)
(* roc_std: Storage                                                        *)
(***************************************************************************)
\* the width of isize, in bits
Width == 3
MaxCalls == 9

MinIsize == -(2 ^ (Width - 1))
MaxIsize == 2 ^ (Width - 1) - 1

\* the outcomes of a + b in isize: the sum, or on overflow a panic (checked
\* build) or the wrapped sum (unchecked build)
isize_add(a, b) ==
    IF a + b \in MinIsize..MaxIsize THEN {[panicked |-> FALSE, val |-> a + b]}
    ELSE {[panicked |-> TRUE, val |-> 0],
          [panicked |-> FALSE, val |-> ((a + b - MinIsize) % (2 ^ Width)) + MinIsize]}

\* const REFCOUNT_1: NonZeroIsize = isize::MIN
REFCOUNT_1 == MinIsize

Readonly == [t |-> "Readonly"]
ReferenceCounted(rc) == [t |-> "ReferenceCounted", rc |-> rc]

new_reference_counted == ReferenceCounted(REFCOUNT_1)

StorageInit ==
    /\ storage = new_reference_counted
    /\ calls = <<>>

\* one call on the storage: what it found, what it left, what it returned
Call(op, ret, after) == [op |-> op, ret |-> ret, before |-> storage, after |-> after]

Called(op, ret, after) ==
    /\ storage' = after
    /\ calls' = Append(calls, Call(op, ret, after))
    /\ UNCHANGED <<generator_vars, fmt_vars>>

\* no call follows a panic
CanCall ==
    /\ Len(calls) < MaxCalls
    /\ \A k \in 1..Len(calls) : calls[k].ret # "panic"

\* a count that is taken for nonzero whatever it is
is_nonzero_always(n) == TRUE

\* NonZeroIsize::new(n) is Some
is_nonzero(n) == n # 0

increment_reference_count ==
    /\ CanCall
    /\ IF storage = Readonly
       THEN Called("increment_reference_count", "unit", storage)
       ELSE \E new_rc \in isize_add(storage.rc, 1) :
              IF new_rc.panicked
              THEN Called("increment_reference_count", "panic", storage)
              ELSE IF is_nonzero(new_rc.val)
              THEN Called("increment_reference_count", "unit", ReferenceCounted(new_rc.val))
              ELSE Called("increment_reference_count", "unit", Readonly)

\* a test that never finds the last reference
is_refcount_1_never(rc) == FALSE

\* *rc == REFCOUNT_1
is_refcount_1(rc) == rc = REFCOUNT_1

decrease ==
    /\ CanCall
    /\ IF storage = Readonly
       THEN Called("decrease", "false", storage)
       ELSE IF is_refcount_1(storage.rc)
       THEN Called("decrease", "true", storage)
       ELSE \E new_rc \in isize_add(storage.rc, -1) :
              \* NonZeroIsize::new(rc.get() - 1).unwrap()
              IF new_rc.panicked \/ new_rc.val = 0
              THEN Called("decrease", "panic", storage)
              ELSE Called("decrease", "false", ReferenceCounted(new_rc.val))

StorageNext ==
    \/ increment_reference_count
    \/ decrease

(***************************************************************************)
(* fmt: spaces                                                             *)
(***************************************************************************)
MaxItems == 4

\* The number of spaces to indent.
INDENT == 4

Indents == {0, INDENT}

\* CommentOrNewline; the text of a line comment holds no newline
Newline == [t |-> "Newline"]
LineComment(comment) == [t |-> "LineComment", comment |-> comment]
None == [t |-> "None"]
Comments == {<<>>, <<"a", " ">>}
Items == {Newline} \cup {LineComment(comment) : comment \in Comments}

RECURSIVE ItemSeqs(_)
ItemSeqs(n) ==
    IF n = 0 THEN {<<>>}
    ELSE ItemSeqs(n - 1) \cup {Append(sq, x) : sq \in ItemSeqs(n - 1), x \in Items}

\* what a buffer holds when the function is called
InitialBufs == {<<>>, <<"\n">>}

\* The output is the buffer together with, for every character, the item of
\* the input whose iteration pushed it and whether newline() pushed it.
\* buf.push(ch)
push(out, ch, item) ==
    [buf |-> Append(out.buf, ch),
     origin |-> Append(out.origin, [item |-> item, part |-> "push"])]

\* buf.push_str(string)
push_str(out, string, item) ==
    [buf |-> out.buf \o string,
     origin |-> out.origin \o [j \in 1..Len(string) |-> [item |-> item, part |-> "push"]]]

add_spaces(out, spaces, item) ==
    [buf |-> out.buf \o [j \in 1..spaces |-> " "],
     origin |-> out.origin \o [j \in 1..spaces |-> [item |-> item, part |-> "newline"]]]

newline(out, indent, item) ==
    add_spaces([buf |-> Append(out.buf, "\n"),
                origin |-> Append(out.origin, [item |-> item, part |-> "newline"])],
               indent, item)

fmt_comment(out, comment, indent, item) ==
    newline(push_str(push(out, "#", item), comment, item), indent, item)

\* the locals of fmt_spaces on entry
FmtSpaces(spaces, indent, start) ==
    [fn |-> "fmt_spaces", spaces |-> spaces, indent |-> indent, iter |-> 0,
     consecutive_newlines |-> 0, encountered_comment |-> FALSE,
     start |-> start, returned |-> FALSE]

\* the locals of fmt_condition_spaces on entry
FmtConditionSpaces(spaces, indent, start) ==
    [fn |-> "fmt_condition_spaces", spaces |-> spaces, indent |-> indent, iter |-> 0,
     start |-> start, returned |-> FALSE]

SpacesEntry ==
    /\ buf \in InitialBufs
    /\ origin = [j \in 1..Len(buf) |-> [item |-> 0, part |-> "before"]]
    /\ \E spaces \in ItemSeqs(MaxItems), indent \in Indents :
         \/ fmt = FmtSpaces(spaces, indent, Len(buf))
         \/ fmt = FmtConditionSpaces(spaces, indent, Len(buf))

\* iter.peek()
peek(f) == IF f.iter + 1 < Len(f.spaces) THEN f.spaces[f.iter + 2] ELSE None

Output(out, f) ==
    /\ buf' = out.buf
    /\ origin' = out.origin
    /\ fmt' = f
    /\ UNCHANGED <<generator_vars, storage_vars>>

\* a newline for every Newline item
newline_allowed_always(f) == TRUE

\* !encountered_comment && (consecutive_newlines < 2)
newline_allowed(f) == ~f.encountered_comment /\ f.consecutive_newlines < 2

\* one iteration of the loop of fmt_spaces, or its end
fmt_spaces ==
    /\ fmt.fn = "fmt_spaces"
    /\ ~fmt.returned
    /\ LET out == [buf |-> buf, origin |-> origin]
           item == fmt.iter + 1
           next == [fmt EXCEPT !.iter = item]
       IN  IF fmt.iter = Len(fmt.spaces)
           THEN Output(out, [fmt EXCEPT !.returned = TRUE])
           ELSE IF fmt.spaces[item] = Newline
           THEN IF newline_allowed(fmt)
                THEN Output(IF peek(fmt) = Newline
                            THEN push(out, "\n", item)
                            ELSE newline(out, fmt.indent, item),
                            [next EXCEPT !.consecutive_newlines = @ + 1])
                ELSE Output(out, next)
           ELSE Output(fmt_comment(out, fmt.spaces[item].comment, fmt.indent, item),
                       [next EXCEPT !.encountered_comment = TRUE])

\* a newline before whatever item comes next
peek_newline_any(out, next_space, indent, item) ==
    IF next_space = None THEN out ELSE newline(out, indent, item)

\* match iter.peek(): a newline before a comment that comes next
peek_newline(out, next_space, indent, item) ==
    IF next_space.t = "LineComment" THEN newline(out, indent, item) ELSE out

\* one iteration of the loop of fmt_condition_spaces, or its end
fmt_condition_spaces ==
    /\ fmt.fn = "fmt_condition_spaces"
    /\ ~fmt.returned
    /\ LET out == [buf |-> buf, origin |-> origin]
           item == fmt.iter + 1
           next == [fmt EXCEPT !.iter = item]
       IN  IF fmt.iter = Len(fmt.spaces)
           THEN Output(out, [fmt EXCEPT !.returned = TRUE])
           ELSE LET space == fmt.spaces[item]
                    pushed == IF space = Newline THEN out
                              ELSE push_str(push(out, "#", item), space.comment, item)
                IN  Output(peek_newline(pushed, peek(fmt), fmt.indent, item), next)

SpacesNext ==
    \/ fmt_spaces
    \/ fmt_condition_spaces

\* no formatting function is running
FmtIdle ==
    /\ buf = <<>>
    /\ origin = <<>>
    /\ fmt = [fn |-> "idle"]

(***************************************************************************)
(* generic_hash                                                            *)
(***************************************************************************)
GeneratorInit ==
    /\ module = <<[name |-> CallerName, params |-> 2,
                   blocks |-> <<[label |-> "entry", instrs |-> <<>>]>>]>>
    /\ builder = [fn |-> 1, blk |-> 1]
    /\ stack = <<>>
    /\ retval = NoValue
    /\ status = "idle"
    /\ panic = ""
    /\ requests = <<>>
    /\ steps = 0

Init ==
    /\ GeneratorInit
    /\ StorageInit
    /\ FmtIdle

generic_hash(layout) ==
    /\ status = "idle"
    /\ Len(requests) < MaxRequests
    /\ requests' = Append(requests, layout)
    /\ stack' = <<LayoutFrame(Param(0), Param(1), layout, Unreachable)>>
    /\ status' = "running"
    /\ steps' = 0
    /\ UNCHANGED <<module, builder, retval, panic>>
    /\ UNCHANGED <<storage_vars, fmt_vars>>

(***************************************************************************)
(* Leaves: scalars, strings, empty collections                             *)
(***************************************************************************)
\* store the value in a fresh stack slot and view the slot as bytes
store_and_use_as_u8_ptr(m, pos, value, layout) ==
    LET alloc == NextValue(m, pos)
        m1 == Emit(m, pos, [op |-> "alloca", name |-> "store"])
        m2 == Emit(m1, pos, [op |-> "store", ptr |-> alloc, val |-> value])
        m3 == Emit(m2, pos, [op |-> "bitcast", val |-> alloc, name |-> "as_u8_ptr"])
    IN  [m |-> m3, v |-> NextValue(m2, pos)]

\* call the byte-mixing primitive on (seed, buffer, width)
hash_bitcode_fn(m, pos, seed, buffer, width) ==
    [m |-> Emit(m, pos, [op |-> "call_bitcode", callee |-> "DICT_HASH",
                         args |-> <<seed, buffer, Const(width)>>]),
     v |-> NextValue(m, pos)]

\* build_str::str_to_i128 followed by the string-mixing primitive
hash_str(m, pos, seed, val) ==
    LET i128 == NextValue(m, pos)
        m1 == Emit(m, pos, [op |-> "str_to_i128", val |-> val])
    IN  [m |-> Emit(m1, pos, [op |-> "call_bitcode", callee |-> "DICT_HASH_STR",
                               args |-> <<seed, i128>>]),
         v |-> NextValue(m1, pos)]

hash_null(seed) == seed

\* an empty collection that is not the identity
hash_empty_collection_mixed(seed) == Const(0)

hash_empty_collection(seed) == seed

\* the empty collections left unimplemented as well
EmptyCollection_todo(f) == Panic("not yet implemented")

\* Builtin::EmptyStr | EmptyDict | EmptyList | EmptySet
EmptyCollection(f) ==
    /\ Return(hash_empty_collection(f.seed))
    /\ UNCHANGED <<module, builder, requests>>

\* Dict and Set hashed like an empty collection
DictOrSet_identity(f) ==
    /\ Return(hash_empty_collection(f.seed))
    /\ UNCHANGED <<module, builder, requests>>

\* Builtin::Dict(_, _) and Builtin::Set(_): todo!()
DictOrSet(f) ==
    Panic(IF f.layout.b = "Dict"
          THEN "not yet implemented: Implement hash for Dict"
          ELSE "not yet implemented: Implement Hash for Set")

hash_builtin(f) ==
    LET builtin == f.layout.b IN
    CASE builtin \in ScalarBuiltins ->
           LET bytes == store_and_use_as_u8_ptr(module, builder, f.val, f.layout)
               call == hash_bitcode_fn(bytes.m, builder, f.seed, bytes.v, stack_size(f.layout))
           IN  /\ module' = call.m
               /\ Return(call.v)
               /\ UNCHANGED <<builder, requests>>
      [] builtin = "Str" ->
           LET call == hash_str(module, builder, f.seed, f.val)
           IN  /\ module' = call.m
               /\ Return(call.v)
               /\ UNCHANGED <<builder, requests>>
      [] builtin \in EmptyBuiltins -> EmptyCollection(f)
      [] builtin \in {"Dict", "Set"} -> DictOrSet(f)
      [] builtin = "List" ->
           /\ Continue(<<ListFrame(f.layout, f.layout.element_layout, f.when_recursive,
                                   f.seed, f.val)>>)
           /\ UNCHANGED <<module, builder, retval, requests>>

(***************************************************************************)
(* build_hash_layout: the dispatcher                                       *)
(***************************************************************************)
\* a function value skipped instead of refused
FunctionOrClosure_skip(f) ==
    /\ Return(f.seed)
    /\ UNCHANGED <<module, builder, requests>>

\* Layout::FunctionPointer(_, _) | Layout::Closure(_, _, _): unreachable!()
FunctionOrClosure(f) ==
    Panic("the type system will guarantee these are never hashed")

build_hash_layout ==
    /\ Running("build_hash_layout")
    /\ LET f == Top IN
       CASE f.layout.k = "Builtin" -> hash_builtin(f)
         [] f.layout.k = "Struct" ->
              /\ Continue(<<StructFrame(f.layout.field_layouts, f.when_recursive,
                                        f.seed, f.val)>>)
              /\ UNCHANGED <<module, builder, retval, requests>>
         [] f.layout.k = "Union" ->
              /\ Continue(<<TagFrame(f.layout, f.layout.union_layout, f.seed, f.val)>>)
              /\ UNCHANGED <<module, builder, retval, requests>>
         [] f.layout.k = "RecursivePointer" ->
              IF f.when_recursive = Unreachable
              THEN Panic("recursion pointers should never be hashed directly")
              ELSE LET union_layout == f.when_recursive.union_layout
                       layout == Union(union_layout)
                       field_cast == NextValue(module, builder)
                   IN  /\ module' = Emit(module, builder,
                                         [op |-> "bitcast", val |-> f.val,
                                          name |-> "i64_to_opaque"])
                       /\ Continue(<<TagFrame(layout, union_layout, f.seed, field_cast)>>)
                       /\ UNCHANGED <<builder, retval, requests>>
         [] f.layout.k \in {"FunctionPointer", "Closure"} -> FunctionOrClosure(f)

(***************************************************************************)
(* Structs                                                                 *)
(***************************************************************************)
StructHelpFrame(parent, when_recursive, field_layouts) ==
    [fn |-> "build_hash_struct_help", pc |-> "start", parent |-> parent,
     when_recursive |-> when_recursive, field_layouts |-> field_layouts]

HashStructFrame(seed, value, when_recursive, field_layouts) ==
    [fn |-> "hash_struct", pc |-> "loop", index |-> 0, seed |-> seed, value |-> value,
     when_recursive |-> when_recursive, field_layouts |-> field_layouts, field |-> NoValue]

\* position the builder back at the saved block and call the procedure there
\* the call built wherever the builder stands
CallProcedure_in_place(block, function, seed, value) ==
    /\ builder' = builder
    /\ module' = Emit(module, builder, [op |-> "call", callee |-> function,
                                        args |-> <<seed, value>>, name |-> "struct_hash"])
    /\ Return(NextValue(module, builder))
    /\ UNCHANGED requests

\* env.builder.position_at_end(block), then build_call
CallProcedure(block, function, seed, value) ==
    /\ builder' = block
    /\ module' = Emit(module, block, [op |-> "call", callee |-> function,
                                      args |-> <<seed, value>>, name |-> "struct_hash"])
    /\ Return(NextValue(module, block))
    /\ UNCHANGED requests

\* let seed_type = env.context.i64_type()
seed_type == [k |-> "Builtin", b |-> "Int64"]

\* a header that declares the seed alone
header_arguments_seed_only(layout) == <<seed_type>>

\* &[seed_type.into(), arg_type]: the seed, then the value of the layout
header_arguments(layout) == <<seed_type, layout>>

\* a hit that builds the body again
CacheHit_rebuild(f, function, help) ==
    /\ Continue(<<[f EXCEPT !.pc = "call", !.block = builder, !.function = function],
                  [help EXCEPT !.parent = function]>>)
    /\ UNCHANGED <<module, builder, retval, requests>>

\* Some(function_value) => function_value: no body step, only the call
CacheHit(f, function, help) ==
    CallProcedure(builder, function, f.seed, f.value)

\* None => register the header under the name, then build the body
CacheMiss(f, fn_name, help) ==
    LET function_value == Len(module) + 1 IN
    /\ module' = build_header_help(module, fn_name, seed_type, header_arguments(fn_name))
    /\ Continue(<<[f EXCEPT !.pc = "call", !.block = builder,
                            !.function = function_value],
                  [help EXCEPT !.parent = function_value]>>)
    /\ UNCHANGED <<builder, retval, requests>>

\* the body the three build_hash_* functions share: save the insertion
\* block, look the procedure up, build it when absent, call it
\* help is the activation that builds the body, its parent still open
GetOrBuild(f, fn_name, help) ==
    LET function == get_function(module, fn_name) IN
    IF f.pc = "start"
    THEN IF function # 0
         THEN CacheHit(f, function, help)
         ELSE CacheMiss(f, fn_name, help)
    ELSE CallProcedure(f.block, f.function, f.seed, f.value)

build_hash_struct ==
    /\ Running("build_hash_struct")
    /\ LET f == Top
           help == StructHelpFrame(0, f.when_recursive, f.field_layouts)
       IN  GetOrBuild(f, FnName(Struct(f.field_layouts)), help)

\* shared by the three *_help functions: open the entry block
OpenEntry(f, body) ==
    LET m1 == append_basic_block(module, f.parent, "entry") IN
    /\ module' = m1
    /\ builder' = [fn |-> f.parent, blk |-> LastBlock(m1, f.parent)]
    /\ Continue(<<[f EXCEPT !.pc = "ret"], body>>)
    /\ UNCHANGED <<retval, requests>>

\* shared by the three *_help functions: builder.build_return(Some(&result))
BuildReturn ==
    /\ module' = Emit(module, builder, [op |-> "ret", val |-> retval])
    /\ Return(NoValue)
    /\ UNCHANGED <<builder, requests>>

build_hash_struct_help ==
    /\ Running("build_hash_struct_help")
    /\ LET f == Top IN
       IF f.pc = "start"
       THEN OpenEntry(f, HashStructFrame(Param(0), Param(1), f.when_recursive,
                                         f.field_layouts))
       ELSE BuildReturn

\* the fold broken: every field is hashed from the input seed
field_seed_unthreaded(f) == f.seed

\* seed = append_hash_layout(..): the seed the next field starts from
field_seed(f) == IF f.pc = "await" THEN retval ELSE f.seed

hash_struct ==
    /\ Running("hash_struct")
    /\ LET f == Top
           seed == field_seed(f)
           index == IF f.pc = "await" THEN f.index + 1 ELSE f.index
       IN  IF f.pc \in {"loop", "await"}
           THEN IF index = Len(f.field_layouts)
                THEN /\ Return(seed)
                     /\ UNCHANGED <<module, builder, requests>>
                ELSE /\ module' = Emit(module, builder,
                                       [op |-> "extract_value", agg |-> f.value,
                                        index |-> index, name |-> "eq_field"])
                     /\ Continue(<<[f EXCEPT !.pc = "field", !.seed = seed,
                                             !.index = index,
                                             !.field = NextValue(module, builder)]>>)
                     /\ UNCHANGED <<builder, retval, requests>>
           ELSE LET field_layout == f.field_layouts[f.index + 1] IN
                IF field_layout = RecursivePointer
                THEN IF f.when_recursive = Unreachable
                     THEN Panic("The current layout should not be recursive, but is")
                     ELSE LET union_layout == f.when_recursive.union_layout
                              field_cast == NextValue(module, builder)
                          IN  /\ module' = Emit(module, builder,
                                                [op |-> "bitcast", val |-> f.field,
                                                 name |-> "i64_to_opaque"])
                              /\ Continue(<<[f EXCEPT !.pc = "await"],
                                            append_hash_layout(f.seed, field_cast,
                                                               Union(union_layout),
                                                               f.when_recursive)>>)
                              /\ UNCHANGED <<builder, retval, requests>>
                ELSE /\ Continue(<<[f EXCEPT !.pc = "await"],
                                   append_hash_layout(f.seed, f.field, field_layout,
                                                      f.when_recursive)>>)
                     /\ UNCHANGED <<module, builder, retval, requests>>

(***************************************************************************)
(* Unions                                                                  *)
(***************************************************************************)
TagHelpFrame(parent, union_layout) ==
    [fn |-> "build_hash_tag_help", pc |-> "start", parent |-> parent,
     union_layout |-> union_layout]

HashTagFrame(parent, seed, tag, union_layout) ==
    [fn |-> "hash_tag", pc |-> "start", parent |-> parent, seed |-> seed, tag |-> tag,
     union_layout |-> union_layout, merge_block |-> 0, merge_phi |-> NoValue,
     tag_id |-> NoValue, tags |-> <<>>, index |-> 0, cases |-> <<>>,
     switch_block |-> 0, block |-> 0]

build_hash_tag ==
    /\ Running("build_hash_tag")
    /\ LET f == Top
           help == TagHelpFrame(0, f.union_layout)
       IN  GetOrBuild(f, FnName(f.layout), help)

build_hash_tag_help ==
    /\ Running("build_hash_tag_help")
    /\ LET f == Top IN
       IF f.pc = "start"
       THEN OpenEntry(f, HashTagFrame(f.parent, Param(0), Param(1), f.union_layout))
       ELSE BuildReturn

\* complex_bitcast of the tag's memory block to the i64 discriminant
nonrec_tag_id(m, pos, tag) ==
    [m |-> Emit(m, pos, [op |-> "complex_bitcast", val |-> tag, name |-> "load_tag_id"]),
     v |-> NextValue(m, pos)]

\* read the discriminant word at the pointee
rec_tag_id_unsafe(m, pos, tag) ==
    LET ptr == NextValue(m, pos)
        m1 == Emit(m, pos, [op |-> "bitcast", val |-> tag, name |-> "cast_for_tag_id"])
    IN  [m |-> Emit(m1, pos, [op |-> "load", ptr |-> ptr, name |-> "load_tag_id"]),
         v |-> NextValue(m1, pos)]

\* cast the pointer to the variant's struct shape and load the struct; the
\* caller continues in build_hash_struct under Loop(union_layout)
hash_ptr_to_struct(m, pos, union_layout, field_layouts, seed, tag) ==
    LET struct_ptr == NextValue(m, pos)
        m1 == Emit(m, pos, [op |-> "bitcast", val |-> tag, name |-> "opaque_to_correct"])
        m2 == Emit(m1, pos, [op |-> "load_struct", ptr |-> struct_ptr,
                             ty |-> Struct(field_layouts), name |-> "load_struct1"])
    IN  [m |-> m2,
         callee |-> StructFrame(field_layouts, Loop(union_layout), seed,
                                NextValue(m1, pos))]

\* one iteration of the loop over the variants, up to the nested call
TagBranch(m, f, index) ==
    LET field_layouts == f.tags[index + 1]
        m1 == append_basic_block(m, f.parent, "tag_id_modify")
        block == LastBlock(m1, f.parent)
        pos == [fn |-> f.parent, blk |-> block]
        g == [f EXCEPT !.pc = "branch", !.index = index, !.block = block]
    IN  IF f.union_layout.t = "NonRecursive"
        THEN LET m2 == Emit(m1, pos, [op |-> "cast_block_of_memory_to_tag",
                                      val |-> f.tag, ty |-> Struct(field_layouts)])
             IN  [m |-> m2, b |-> pos,
                  fs |-> <<g, StructFrame(field_layouts, Unreachable, f.seed,
                                          NextValue(m1, pos))>>]
        ELSE LET h == hash_ptr_to_struct(m1, pos, f.union_layout, field_layouts,
                                         f.seed, f.tag)
             IN  [m |-> h.m, b |-> pos, fs |-> <<g, h.callee>>]

\* the first variant taken as the default instead of the last
pop_default_first(cases) ==
    [default |-> cases[1][2], cases |-> SubSeq(cases, 1, Len(cases) - 1)]

\* let default = cases.pop().unwrap().1: the last case becomes the default
pop_default(cases) ==
    [default |-> cases[Len(cases)][2], cases |-> SubSeq(cases, 1, Len(cases) - 1)]

\* the loop over the variants; with no variant left, cases.pop().unwrap()
TagBranches(m, f, index) ==
    IF index < Len(f.tags)
    THEN LET step == TagBranch(m, f, index) IN
         /\ module' = step.m
         /\ builder' = step.b
         /\ Continue(step.fs)
         /\ UNCHANGED <<retval, requests>>
    ELSE IF f.cases = <<>>
    THEN Panic("called Option::unwrap() on a None value")
    ELSE LET switch_pos == [fn |-> f.parent, blk |-> f.switch_block]
             popped == pop_default(f.cases)
         IN  /\ module' = Emit(m, switch_pos,
                               [op |-> "switch", val |-> f.tag_id,
                                default |-> popped.default, cases |-> popped.cases])
             /\ builder' = [fn |-> f.parent, blk |-> f.merge_block]
             /\ Return(f.merge_phi)
             /\ UNCHANGED requests

\* a null branch whose answer is made from the nullable index
null_answer_by_index(f) == <<"const", f.union_layout.nullable_id>>

\* let answer = hash_null(seed)
null_answer(f) == hash_null(f.seed)

\* the discriminant read before the null test
NullPrelude_load_first(m, f, entry) ==
    LET id == rec_tag_id_unsafe(m, entry, f.tag)
        is_null == NextValue(id.m, entry)
        m1 == Emit(id.m, entry, [op |-> "is_null", val |-> f.tag, name |-> "is_null"])
        m2 == append_basic_block(m1, f.parent, "hash_null_block")
        hash_null_block == LastBlock(m2, f.parent)
        m3 == append_basic_block(m2, f.parent, "hash_other_block")
        hash_other_block == LastBlock(m3, f.parent)
        m4 == Emit(m3, entry, [op |-> "cond_br", cond |-> is_null,
                               then |-> hash_null_block, else |-> hash_other_block])
        answer == null_answer(f)
        m5 == add_incoming(m4, f.parent, f.merge_phi, answer, hash_null_block)
        m6 == Emit(m5, [fn |-> f.parent, blk |-> hash_null_block],
                   [op |-> "br", dest |-> f.merge_block])
    IN  [m |-> m6, hash_other_block |-> hash_other_block]

\* the null test and the null branch of the two nullable representations
NullPrelude(m, f, entry) ==
    LET is_null == NextValue(m, entry)
        m1 == Emit(m, entry, [op |-> "is_null", val |-> f.tag, name |-> "is_null"])
        m2 == append_basic_block(m1, f.parent, "hash_null_block")
        hash_null_block == LastBlock(m2, f.parent)
        m3 == append_basic_block(m2, f.parent, "hash_other_block")
        hash_other_block == LastBlock(m3, f.parent)
        m4 == Emit(m3, entry, [op |-> "cond_br", cond |-> is_null,
                               then |-> hash_null_block, else |-> hash_other_block])
        answer == null_answer(f)
        m5 == add_incoming(m4, f.parent, f.merge_phi, answer, hash_null_block)
        m6 == Emit(m5, [fn |-> f.parent, blk |-> hash_null_block],
                   [op |-> "br", dest |-> f.merge_block])
    IN  [m |-> m6, hash_other_block |-> hash_other_block]

\* hash_tag up to its first nested call: the merge block, the decode prelude
HashTagStart(f0) ==
    LET entry == builder
        entry_block == builder.blk
        m1 == append_basic_block(module, f0.parent, "merge_block")
        merge_block == LastBlock(m1, f0.parent)
        merge_pos == [fn |-> f0.parent, blk |-> merge_block]
        m2 == Emit(m1, merge_pos,
                   [op |-> "phi", incoming |-> <<>>, name |-> "merge_hash"])
        f == [f0 EXCEPT !.merge_block = merge_block,
                        !.merge_phi = NextValue(m1, merge_pos)]
        u == f.union_layout
    IN  CASE u.t = "NonRecursive" ->
               LET id == nonrec_tag_id(m2, entry, f.tag) IN
               TagBranches(id.m, [f EXCEPT !.tag_id = id.v, !.tags = u.tags,
                                           !.switch_block = entry_block], 0)
          [] u.t = "Recursive" ->
               LET id == rec_tag_id_unsafe(m2, entry, f.tag) IN
               TagBranches(id.m, [f EXCEPT !.tag_id = id.v, !.tags = u.tags,
                                           !.switch_block = entry_block], 0)
          [] u.t = "NullableUnwrapped" ->
               IF u.other_fields = <<>>
               THEN Panic("range start index 1 out of range for slice of length 0")
               ELSE LET other_fields == Tail(u.other_fields)
                        pre == NullPrelude(m2, f, entry)
                        pos == [fn |-> f.parent, blk |-> pre.hash_other_block]
                        h == hash_ptr_to_struct(pre.m, pos, u, other_fields,
                                                f.seed, f.tag)
                    IN  /\ module' = h.m
                        /\ builder' = pos
                        /\ Continue(<<[f EXCEPT !.pc = "single",
                                                !.block = pre.hash_other_block],
                                      h.callee>>)
                        /\ UNCHANGED <<retval, requests>>
          [] u.t = "NullableWrapped" ->
               LET pre == NullPrelude(m2, f, entry)
                   pos == [fn |-> f.parent, blk |-> pre.hash_other_block]
                   id == rec_tag_id_unsafe(pre.m, pos, f.tag)
               IN  TagBranches(id.m, [f EXCEPT !.tag_id = id.v,
                                               !.tags = u.other_tags,
                                               !.switch_block = pre.hash_other_block],
                               0)
          [] u.t = "NonNullableUnwrapped" ->
               LET h == hash_ptr_to_struct(m2, entry, u, u.field_layouts,
                                           f.seed, f.tag)
               IN  /\ module' = h.m
                   /\ Continue(<<[f EXCEPT !.pc = "single",
                                           !.block = entry_block],
                                 h.callee>>)
                   /\ UNCHANGED <<builder, retval, requests>>

\* a case constant that counts the null variant among the variants
case_value_logical(f) ==
    IF f.union_layout.t = "NullableWrapped" /\ f.index >= f.union_layout.nullable_id
    THEN Const(f.index + 1)
    ELSE Const(f.index)

\* env.context.i64_type().const_int(tag_id as u64, false): the position of
\* the variant in the list the loop enumerates
case_value(f) == Const(f.index)

hash_tag ==
    /\ Running("hash_tag")
    /\ LET f0 == Top IN
       CASE f0.pc = "start" -> HashTagStart(f0)
         [] f0.pc = "branch" ->
              LET answer == retval
                  m1 == add_incoming(module, f0.parent, f0.merge_phi, answer, f0.block)
                  m2 == Emit(m1, builder, [op |-> "br", dest |-> f0.merge_block])
                  cases == Append(f0.cases, <<case_value(f0), f0.block>>)
              IN  TagBranches(m2, [f0 EXCEPT !.cases = cases], f0.index + 1)
         [] f0.pc = "single" ->
              LET answer == retval
                  m1 == add_incoming(module, f0.parent, f0.merge_phi, answer, f0.block)
                  m2 == Emit(m1, builder, [op |-> "br", dest |-> f0.merge_block])
              IN  /\ module' = m2
                  /\ builder' = [fn |-> f0.parent, blk |-> f0.merge_block]
                  /\ Return(f0.merge_phi)
                  /\ UNCHANGED requests

(***************************************************************************)
(* Lists                                                                   *)
(***************************************************************************)
ListHelpFrame(parent, when_recursive, element_layout) ==
    [fn |-> "build_hash_list_help", pc |-> "start", parent |-> parent,
     when_recursive |-> when_recursive, element_layout |-> element_layout]

HashListFrame(parent, seed, value, when_recursive, element_layout) ==
    [fn |-> "hash_list", pc |-> "start", parent |-> parent, seed |-> seed,
     value |-> value, when_recursive |-> when_recursive,
     element_layout |-> element_layout, done_block |-> 0, loop_bb |-> 0,
     result |-> NoValue, length |-> NoValue, next_index |-> NoValue]

build_hash_list ==
    /\ Running("build_hash_list")
    /\ LET f == Top
           help == ListHelpFrame(0, f.when_recursive, f.element_layout)
       IN  GetOrBuild(f, FnName(f.layout), help)

build_hash_list_help ==
    /\ Running("build_hash_list_help")
    /\ LET f == Top IN
       IF f.pc = "start"
       THEN OpenEntry(f, HashListFrame(f.parent, Param(0), Param(1), f.when_recursive,
                                       f.element_layout))
       ELSE BuildReturn

\* build_list::load_list: the length and the element pointer of the list
load_list(m, pos, value) ==
    LET m1 == Emit(m, pos, [op |-> "list_ptr", val |-> value, name |-> "list_ptr"])
        m2 == Emit(m1, pos, [op |-> "list_len", val |-> value, name |-> "list_len"])
    IN  [m |-> m2, ptr |-> NextValue(m, pos), length |-> NextValue(m1, pos)]

\* build_list::incrementing_elem_loop up to the call of loop_fn: the index
\* slot, the loop block, the index increment and the load of the element
incrementing_elem_loop(m, pos, parent, ptr) ==
    LET index_alloca == NextValue(m, pos)
        m1 == Emit(m, pos, [op |-> "alloca", name |-> "current_index"])
        m2 == Emit(m1, pos, [op |-> "store", ptr |-> index_alloca, val |-> Const(0)])
        m3 == append_basic_block(m2, parent, "loop")
        loop_bb == LastBlock(m3, parent)
        m4 == Emit(m3, pos, [op |-> "br", dest |-> loop_bb])
        at == [fn |-> parent, blk |-> loop_bb]
        curr_index == NextValue(m4, at)
        m5 == Emit(m4, at, [op |-> "load", ptr |-> index_alloca, name |-> "current_index"])
        next_index == NextValue(m5, at)
        m6 == Emit(m5, at, [op |-> "add", lhs |-> curr_index, rhs |-> Const(1),
                            name |-> "nextindex"])
        m7 == Emit(m6, at, [op |-> "store", ptr |-> index_alloca, val |-> next_index])
        elem_ptr == NextValue(m7, at)
        m8 == Emit(m7, at, [op |-> "gep", ptr |-> ptr, index |-> curr_index,
                            name |-> "load_index"])
        m9 == Emit(m8, at, [op |-> "load", ptr |-> elem_ptr, name |-> "get_elem"])
    IN  [m |-> m9, at |-> at, loop_bb |-> loop_bb, next_index |-> next_index,
         elem |-> NextValue(m8, at)]

\* build_list::incrementing_elem_loop after loop_fn: the bounds check, the
\* back edge and the block after the loop
incrementing_elem_loop_end(m, pos, parent, next_index, length, loop_bb) ==
    LET loop_end_cond == NextValue(m, pos)
        m1 == Emit(m, pos, [op |-> "icmp", pred |-> "ULT", lhs |-> next_index,
                            rhs |-> length, name |-> "bounds_check"])
        m2 == append_basic_block(m1, parent, "after_outer_loop")
        after_loop_bb == LastBlock(m2, parent)
        m3 == Emit(m2, pos, [op |-> "cond_br", cond |-> loop_end_cond,
                             then |-> loop_bb, else |-> after_loop_bb])
    IN  [m |-> m3, at |-> [fn |-> parent, blk |-> after_loop_bb]]

\* the fold broken: every element is hashed from the input seed
loop_fn_from_input(f, seed, element) ==
    append_hash_layout(f.seed, element, f.element_layout, f.when_recursive)

\* loop_fn: hash the element from the loaded accumulator
loop_fn(f, seed, element) ==
    append_hash_layout(seed, element, f.element_layout, f.when_recursive)

hash_list ==
    /\ Running("hash_list")
    /\ LET f == Top IN
       IF f.pc = "start"
       THEN LET m1 == append_basic_block(module, f.parent, "done")
                done_block == LastBlock(m1, f.parent)
                m2 == append_basic_block(m1, f.parent, "loop")
                loop_block == LastBlock(m2, f.parent)
                ll == load_list(m2, builder, f.value)
                result == NextValue(ll.m, builder)
                m3 == Emit(ll.m, builder, [op |-> "alloca", name |-> "result"])
                m4 == Emit(m3, builder, [op |-> "store", ptr |-> result, val |-> f.seed])
                is_empty == NextValue(m4, builder)
                m5 == Emit(m4, builder, [op |-> "icmp", pred |-> "EQ", lhs |-> ll.length,
                                         rhs |-> Const(0), name |-> "is_empty"])
                m6 == Emit(m5, builder, [op |-> "cond_br", cond |-> is_empty,
                                         then |-> done_block, else |-> loop_block])
                loop == incrementing_elem_loop(m6, [fn |-> f.parent, blk |-> loop_block],
                                               f.parent, ll.ptr)
                seed == NextValue(loop.m, loop.at)
                m7 == Emit(loop.m, loop.at, [op |-> "load", ptr |-> result,
                                             name |-> "load_current"])
            IN  /\ module' = m7
                /\ builder' = loop.at
                /\ Continue(<<[f EXCEPT !.pc = "await", !.done_block = done_block,
                                        !.loop_bb = loop.loop_bb, !.result = result,
                                        !.length = ll.length,
                                        !.next_index = loop.next_index],
                              loop_fn(f, seed, loop.elem)>>)
                /\ UNCHANGED <<retval, requests>>
       ELSE LET answer == retval
                m1 == Emit(module, builder, [op |-> "store", ptr |-> f.result,
                                             val |-> answer])
                end == incrementing_elem_loop_end(m1, builder, f.parent, f.next_index,
                                                  f.length, f.loop_bb)
                m2 == Emit(end.m, end.at, [op |-> "br", dest |-> f.done_block])
                done == [fn |-> f.parent, blk |-> f.done_block]
            IN  /\ module' = Emit(m2, done, [op |-> "load", ptr |-> f.result,
                                             name |-> "load_current"])
                /\ builder' = done
                /\ Return(NextValue(m2, done))
                /\ UNCHANGED requests

(***************************************************************************)
(* Specification                                                           *)
(***************************************************************************)
Generate ==
    \/ build_hash_layout
    \/ build_hash_struct
    \/ build_hash_struct_help
    \/ hash_struct
    \/ build_hash_tag
    \/ build_hash_tag_help
    \/ hash_tag
    \/ build_hash_list
    \/ build_hash_list_help
    \/ hash_list

Next ==
    \/ \E layout \in RequestLayouts : generic_hash(layout)
    \/ Generate

Spec == Init /\ [][Next]_vars

SpecStorage == Init /\ [][StorageNext]_vars

SpacesInit ==
    /\ GeneratorInit
    /\ StorageInit
    /\ SpacesEntry

SpecSpaces == SpacesInit /\ [][SpacesNext]_vars

(***************************************************************************)
(* Run-time values                                                         *)
(***************************************************************************)
IntV(n) == [int |-> n]
StrV(n) == [str |-> n]
EmptyV == [empty |-> TRUE]
StructV(fields) == [fields |-> fields]
ListV(elems) == [elems |-> elems]
\* a non-recursive union: the block of memory with its inline discriminant
TagV(tag_id, data) == [tag_id |-> tag_id, data |-> data]
\* a pointer-encoded union: null, or the pointee with its hidden discriminant
NullV == [null |-> TRUE]
PtrV(ptr_tag, pointee) == [ptr_tag |-> ptr_tag, pointee |-> pointee]

MaxListLen == 2
MaxDepth == 2
\* the radix of the path numbers: more than any number of children
Fan == MaxListLen + 2

\* The values of a layout, one per shape: list lengths up to MaxListLen,
\* every variant, null or not, recursion up to depth d.  Every scalar leaf
\* carries a number that encodes its path, so that two leaves differ.
RECURSIVE Values(_, _, _, _)
RECURSIVE FieldTuples(_, _, _, _, _)
RECURSIVE ElemTuples(_, _, _, _, _)
RECURSIVE UnionValues(_, _, _, _)

FieldTuples(field_layouts, ctx, d, base, n) ==
    IF n = 0 THEN {<<>>}
    ELSE {Append(t, x) : t \in FieldTuples(field_layouts, ctx, d, base, n - 1),
                         x \in Values(field_layouts[n], ctx, d, base * Fan + n)}

ElemTuples(element_layout, ctx, d, base, n) ==
    IF n = 0 THEN {<<>>}
    ELSE {Append(t, x) : t \in ElemTuples(element_layout, ctx, d, base, n - 1),
                         x \in Values(element_layout, ctx, d, base * Fan + n)}

UnionValues(u, ctx, d, base) ==
    LET Variants(tags, c, Make(_, _)) ==
            UNION {{Make(i - 1, StructV(t)) :
                      t \in FieldTuples(tags[i], c, d, base * Fan + i, Len(tags[i]))} :
                   i \in 1..Len(tags)}
    IN  CASE u.t = "NonRecursive" -> Variants(u.tags, ctx, TagV)
          [] u.t = "Recursive" -> Variants(u.tags, Loop(u), PtrV)
          [] u.t = "NullableWrapped" -> {NullV} \cup Variants(u.other_tags, Loop(u), PtrV)
          [] u.t = "NullableUnwrapped" ->
               \* the pointee holds the fields after the tag-id slot
               {NullV} \cup Variants(<<Tail(u.other_fields)>>, Loop(u), PtrV)
          [] u.t = "NonNullableUnwrapped" -> Variants(<<u.field_layouts>>, Loop(u), PtrV)

Values(layout, ctx, d, base) ==
    CASE layout.k = "Builtin" ->
           (CASE layout.b \in ScalarBuiltins -> {IntV(base)}
              [] layout.b = "Str" -> {StrV(base)}
              [] layout.b \in EmptyBuiltins -> {EmptyV}
              [] layout.b = "List" ->
                   \* a longer list has shallower elements
                   UNION {{ListV(t) : t \in ElemTuples(layout.element_layout, ctx,
                                                       d + 1 - n, base, n)} :
                          n \in 0..MaxListLen}
              [] OTHER -> {})
      [] layout.k = "Struct" ->
           {StructV(t) : t \in FieldTuples(layout.field_layouts, ctx, d, base,
                                           Len(layout.field_layouts))}
      [] layout.k = "Union" -> UnionValues(layout.union_layout, ctx, d, base)
      [] layout.k = "RecursivePointer" ->
           IF ctx = Unreachable \/ d <= 0 THEN {}
           ELSE UnionValues(ctx.union_layout, ctx, d - 1, base)
      [] OTHER -> {}

\* a seed is the sequence of what has been mixed into it
Seeds == {<<>>, <<[str |-> 0]>>}

\* the byte-mixing primitives: deterministic, otherwise free
DICT_HASH(seed, value, width) == Append(seed, [bytes |-> value.int, width |-> width])
DICT_HASH_STR(seed, value) == Append(seed, [str |-> value.str])

(***************************************************************************)
(* Execution of the generated procedures                                   *)
(***************************************************************************)
Fuel == 5000

Operand(st, x) ==
    CASE x[1] = "arg" -> st.args[x[2] + 1]
      [] x[1] = "const" -> x[2]
      [] x[1] = "ins" -> st.regs[<<x[2], x[3]>>]

Bind(st, k, v) == [st EXCEPT !.regs = (k :> v) @@ @]

\* an access that the value in hand does not support (a value of another
\* type than the code was generated for): the run is abandoned
Undefined(st) == [st EXCEPT !.ub = TRUE]

Is(x, field) == field \in DOMAIN x

\* one instruction that is neither a terminator nor a call
ExecInstr(st, k, ins) ==
    CASE ins.op = "alloca" -> Bind(st, k, [slot |-> k])
      [] ins.op = "store" ->
           [st EXCEPT !.mem = (Operand(st, ins.ptr).slot :> Operand(st, ins.val)) @@ @]
      [] ins.op = "load" ->
           LET p == Operand(st, ins.ptr) IN
           CASE Is(p, "slot") -> Bind(st, k, st.mem[p.slot])
             [] Is(p, "buf") /\ p.at < Len(p.buf) -> Bind(st, k, p.buf[p.at + 1])
             [] Is(p, "ptr_tag") -> Bind(st, k, p.ptr_tag)
             [] OTHER -> Undefined(st)
      [] ins.op = "load_struct" ->
           LET p == Operand(st, ins.ptr) IN
           IF Is(p, "pointee") /\ Len(p.pointee.fields) = Len(ins.ty.field_layouts)
           THEN Bind(st, k, p.pointee)
           ELSE Undefined(st)
      [] ins.op = "gep" ->
           Bind(st, k, [buf |-> Operand(st, ins.ptr).buf, at |-> Operand(st, ins.index)])
      [] ins.op = "list_ptr" ->
           LET l == Operand(st, ins.val) IN
           IF Is(l, "elems") THEN Bind(st, k, [buf |-> l.elems]) ELSE Undefined(st)
      [] ins.op = "list_len" ->
           LET l == Operand(st, ins.val) IN
           IF Is(l, "elems") THEN Bind(st, k, Len(l.elems)) ELSE Undefined(st)
      [] ins.op = "is_null" ->
           LET p == Operand(st, ins.val) IN
           IF Is(p, "null") \/ Is(p, "pointee") THEN Bind(st, k, Is(p, "null"))
           ELSE Undefined(st)
      [] ins.op = "icmp" ->
           Bind(st, k, IF ins.pred = "EQ"
                       THEN Operand(st, ins.lhs) = Operand(st, ins.rhs)
                       ELSE Operand(st, ins.lhs) < Operand(st, ins.rhs))
      [] ins.op = "add" -> Bind(st, k, Operand(st, ins.lhs) + Operand(st, ins.rhs))
      [] ins.op = "extract_value" ->
           LET agg == Operand(st, ins.agg) IN
           IF Is(agg, "fields") /\ ins.index < Len(agg.fields)
           THEN Bind(st, k, agg.fields[ins.index + 1])
           ELSE Undefined(st)
      [] ins.op \in {"bitcast", "str_to_i128"} -> Bind(st, k, Operand(st, ins.val))
      [] ins.op = "complex_bitcast" ->
           LET t == Operand(st, ins.val) IN
           IF Is(t, "tag_id") THEN Bind(st, k, t.tag_id) ELSE Undefined(st)
      [] ins.op = "cast_block_of_memory_to_tag" ->
           LET t == Operand(st, ins.val) IN
           IF Is(t, "data") /\ Len(t.data.fields) = Len(ins.ty.field_layouts)
           THEN Bind(st, k, t.data)
           ELSE Undefined(st)
      [] ins.op = "call_bitcode" ->
           IF ins.callee = "DICT_HASH"
           THEN LET v == st.mem[Operand(st, ins.args[2]).slot] IN
                IF Is(v, "int")
                THEN Bind(st, k, DICT_HASH(Operand(st, ins.args[1]), v,
                                           Operand(st, ins.args[3])))
                ELSE Undefined(st)
           ELSE LET v == Operand(st, ins.args[2]) IN
                IF Is(v, "str")
                THEN Bind(st, k, DICT_HASH_STR(Operand(st, ins.args[1]), v))
                ELSE Undefined(st)
      [] ins.op = "phi" ->
           LET from == {n \in 1..Len(ins.incoming) : ins.incoming[n][2] = st.prev} IN
           IF from = {} THEN Undefined(st)
           ELSE Bind(st, k, Operand(st, ins.incoming[CHOOSE n \in from : TRUE][1]))

Activation(args, fuel, trace) ==
    [args |-> args, regs |-> <<>>, mem |-> <<>>, prev |-> 0, fuel |-> fuel,
     trace |-> trace, ub |-> FALSE]

\* run function fi of module m from instruction i of block b; the result is
\* the returned seed and the blocks entered, as <<function, block>>
RECURSIVE RunFrom(_, _, _, _, _)
RunFrom(m, fi, b, i, st) ==
    IF st.ub \/ st.fuel = 0 \/ i > Len(m[fi].blocks[b].instrs)
    THEN [ok |-> FALSE, seed |-> <<>>, trace |-> st.trace, fuel |-> 0]
    ELSE LET ins == m[fi].blocks[b].instrs[i]
             st1 == [st EXCEPT !.fuel = @ - 1]
             Goto(dest) ==
                 RunFrom(m, fi, dest, 1,
                         [st1 EXCEPT !.prev = b, !.trace = Append(@, <<fi, dest>>)])
         IN  CASE ins.op = "ret" ->
                    [ok |-> TRUE, seed |-> Operand(st, ins.val), trace |-> st.trace,
                     fuel |-> st1.fuel]
               [] ins.op = "br" -> Goto(ins.dest)
               [] ins.op = "cond_br" ->
                    Goto(IF Operand(st, ins.cond) THEN ins.then ELSE ins.else)
               [] ins.op = "switch" ->
                    LET v == Operand(st, ins.val)
                        hits == {c \in 1..Len(ins.cases) : ins.cases[c][1][2] = v}
                    IN  Goto(IF hits = {} THEN ins.default
                             ELSE ins.cases[CHOOSE c \in hits : TRUE][2])
               [] ins.op = "call" ->
                    LET r == RunFrom(m, ins.callee, 1, 1,
                                     Activation(<<Operand(st, ins.args[1]),
                                                  Operand(st, ins.args[2])>>,
                                                st1.fuel,
                                                Append(st1.trace, <<ins.callee, 1>>)))
                    IN  IF ~r.ok THEN r
                        ELSE RunFrom(m, fi, b, i + 1,
                                     [Bind(st1, <<b, i>>, r.seed) EXCEPT
                                        !.fuel = r.fuel, !.trace = r.trace])
               [] OTHER -> RunFrom(m, fi, b, i + 1, ExecInstr(st1, <<b, i>>, ins))

\* call procedure fi with (seed, value)
Run(m, fi, seed, value) ==
    RunFrom(m, fi, 1, 1, Activation(<<seed, value>>, Fuel, <<<<fi, 1>>>>))

(***************************************************************************)
(* Vocabulary of the properties                                            *)
(***************************************************************************)
BuildFns == {"build_hash_struct", "build_hash_tag", "build_hash_list"}
HelpFns == {"build_hash_struct_help", "build_hash_tag_help", "build_hash_list_help"}

\* the cache key a build_hash_* activation looks up
FrameKey(f) ==
    IF f.fn = "build_hash_struct" THEN FnName(Struct(f.field_layouts)) ELSE FnName(f.layout)

Procedures == {i \in 1..Len(module) : module[i].name # CallerName}

Positions(fnrec) ==
    UNION {{<<b, i>> : i \in 1..Len(fnrec.blocks[b].instrs)} : b \in 1..Len(fnrec.blocks)}
InstrAt(fnrec, p) == fnrec.blocks[p[1]].instrs[p[2]]
EntryBlocks(fnrec) == {b \in 1..Len(fnrec.blocks) : fnrec.blocks[b].label = "entry"}
ReturnsOf(fnrec) == {p \in Positions(fnrec) : InstrAt(fnrec, p).op = "ret"}
CallsTo(fnrec, callee) ==
    {p \in Positions(fnrec) : InstrAt(fnrec, p).op = "call" /\ InstrAt(fnrec, p).callee = callee}
InstrCount(m) ==
    LET RECURSIVE Sum(_, _)
        Sum(i, b) ==
            IF i > Len(m) THEN 0
            ELSE IF b > Len(m[i].blocks) THEN Sum(i + 1, 1)
            ELSE Len(m[i].blocks[b].instrs) + Sum(i, b + 1)
    IN  Sum(1, 1)

\* the struct, union and list layouts a layout description consists of; the
\* field list of a union variant counts as a struct layout
RECURSIVE DescNodes(_)
DescNodes(layout) ==
    LET OfFields(fields) == UNION {DescNodes(fields[i]) : i \in 1..Len(fields)}
        OfTags(tags) ==
            UNION {{Struct(tags[i])} \cup OfFields(tags[i]) : i \in 1..Len(tags)}
    IN  CASE layout.k = "Struct" -> {layout} \cup OfFields(layout.field_layouts)
          [] layout.k = "Builtin" /\ layout.b = "List" ->
               {layout} \cup DescNodes(layout.element_layout)
          [] layout.k = "Union" ->
               {layout} \cup
               (LET u == layout.union_layout IN
                CASE u.t \in {"NonRecursive", "Recursive"} -> OfTags(u.tags)
                  [] u.t = "NullableWrapped" -> OfTags(u.other_tags)
                  [] u.t = "NullableUnwrapped" -> OfTags(<<u.other_fields>>)
                  [] u.t = "NonNullableUnwrapped" -> OfTags(<<u.field_layouts>>))
          [] OTHER -> {}

RequestedNodes == UNION {DescNodes(requests[i]) : i \in 1..Len(requests)}

\* the three kinds of fatal activation
FatalFunction(f) ==
    f.fn = "build_hash_layout" /\ f.layout.k \in {"FunctionPointer", "Closure"}
FatalRecursivePointer(f) ==
    \/ /\ f.fn = "build_hash_layout"
       /\ f.layout = RecursivePointer
       /\ f.when_recursive = Unreachable
    \/ /\ f.fn = "hash_struct"
       /\ f.pc = "field"
       /\ f.field_layouts[f.index + 1] = RecursivePointer
       /\ f.when_recursive = Unreachable
FatalUnimplemented(f) ==
    f.fn = "build_hash_layout" /\ f.layout.k = "Builtin" /\ f.layout.b \in {"Dict", "Set"}

FatalAtTop(kinds) ==
    /\ stack # <<>>
    /\ \/ "function" \in kinds /\ FatalFunction(Top)
       \/ "pointer" \in kinds /\ FatalRecursivePointer(Top)
       \/ "unimplemented" \in kinds /\ FatalUnimplemented(Top)

(***************************************************************************)
(* C1: generation terminates, also for a self-referential union: the       *)
(* number of procedure bodies built never exceeds the number of distinct   *)
(* struct, union and list layouts of the requested descriptions, and every *)
(* started request stops running.                                          *)
(***************************************************************************)
BodiesBuilt == Cardinality({i \in Procedures : EntryBlocks(module[i]) # {}})

C1_BodiesBounded == BodiesBuilt <= Cardinality(RequestedNodes)

\* the nodes of a layout description, leaves and variants included
RECURSIVE LayoutSize(_)
LayoutSize(layout) ==
    LET RECURSIVE OfFields(_, _)
        OfFields(fields, i) ==
            IF i > Len(fields) THEN 0 ELSE LayoutSize(fields[i]) + OfFields(fields, i + 1)
        RECURSIVE OfTags(_, _)
        OfTags(tags, i) ==
            IF i > Len(tags) THEN 0 ELSE 1 + OfFields(tags[i], 1) + OfTags(tags, i + 1)
    IN  1 + CASE layout.k = "Struct" -> OfFields(layout.field_layouts, 1)
              [] layout.k = "Builtin" /\ layout.b = "List" -> LayoutSize(layout.element_layout)
              [] layout.k = "Union" ->
                   (LET u == layout.union_layout IN
                    CASE u.t \in {"NonRecursive", "Recursive"} -> OfTags(u.tags, 1)
                      [] u.t = "NullableWrapped" -> OfTags(u.other_tags, 1)
                      [] u.t = "NullableUnwrapped" -> OfTags(<<u.other_fields>>, 1)
                      [] u.t = "NonNullableUnwrapped" -> OfTags(<<u.field_layouts>>, 1))
              [] OTHER -> 0

\* no layout node takes more generation steps than this
StepsPerNode == 8

\* the guard of Generate: an activation of one of its functions is innermost
CanStep ==
    /\ stack # <<>>
    /\ Top.fn \in BuildFns \cup HelpFns \cup
                  {"build_hash_layout", "hash_struct", "hash_tag", "hash_list"}

C1_Terminates ==
    /\ C1_BodiesBounded
    /\ status = "running" => CanStep
    /\ requests # <<>> => steps <= StepsPerNode * LayoutSize(requests[Len(requests)])

\* a finished generation in which a union procedure and the struct procedure
\* of its variant call each other
C1_Witness ==
    /\ status = "idle"
    /\ \E i, j \in Procedures :
         /\ module[i].name.k = "Union"
         /\ module[j].name.k = "Struct"
         /\ CallsTo(module[i], j) # {}
         /\ CallsTo(module[j], i) # {}

(***************************************************************************)
(* C2: the module holds at most one procedure per layout name, no body is  *)
(* built twice, and after a request every procedure has exactly one body.  *)
(***************************************************************************)
C2_OneProcedurePerLayout ==
    /\ \A i, j \in 1..Len(module) : module[i].name = module[j].name => i = j
    /\ \A i \in Procedures :
         /\ Cardinality(EntryBlocks(module[i])) <= 1
         /\ Cardinality(ReturnsOf(module[i])) <= 1
         /\ module[i].name.k \in {"Struct", "Union", "Builtin"}
    /\ status = "idle" =>
         \A i \in Procedures :
           /\ Cardinality(EntryBlocks(module[i])) = 1
           /\ Cardinality(ReturnsOf(module[i])) = 1

\* one procedure that is called from two places after two requests
C2_Witness ==
    /\ status = "idle"
    /\ Len(requests) = 2
    /\ \E i \in Procedures :
         \E j, k \in 1..Len(module) :
           /\ j # k
           /\ CallsTo(module[j], i) # {}
           /\ CallsTo(module[k], i) # {}

(***************************************************************************)
(* C3: while the body of a procedure is being built the procedure is       *)
(* registered under its name, so a lookup made meanwhile returns its       *)
(* handle; a lookup that hits adds no function and no block and runs no    *)
(* body step, it only emits the call.                                      *)
(***************************************************************************)
InProgress(i) == stack[i].fn \in BuildFns /\ stack[i].pc = "call"

C3_Registered ==
    \A i \in 1..Len(stack) :
      /\ InProgress(i) => get_function(module, FrameKey(stack[i])) = stack[i].function
      /\ stack[i].fn \in HelpFns =>
           /\ i > 1
           /\ InProgress(i - 1)
           /\ stack[i].parent = stack[i - 1].function

LookupHits ==
    /\ status = "running"
    /\ stack # <<>>
    /\ Top.fn \in BuildFns
    /\ Top.pc = "start"
    /\ get_function(module, FrameKey(Top)) # 0

BlockCount(m) ==
    LET RECURSIVE Sum(_)
        Sum(i) == IF i > Len(m) THEN 0 ELSE Len(m[i].blocks) + Sum(i + 1)
    IN  Sum(1)

C3_HitStep ==
    LookupHits =>
      /\ Len(module') = Len(module)
      /\ BlockCount(module') = BlockCount(module)
      /\ InstrCount(module') = InstrCount(module) + 1
      /\ stack' = Pop
      /\ CallsTo(module'[builder.fn], get_function(module, FrameKey(Top))) #
           CallsTo(module[builder.fn], get_function(module, FrameKey(Top)))

C3_RegisterFirst == []C3_Registered /\ [][C3_HitStep]_vars

\* a lookup of a layout whose own body is under construction further up
C3_Witness ==
    /\ LookupHits
    /\ \E i \in 1..(Len(stack) - 1) :
         InProgress(i) /\ FrameKey(stack[i]) = FrameKey(Top)

(***************************************************************************)
(* C4 (as amended): generation aborts only in an activation that is fatal: *)
(* a function or closure layout, a RecursivePointer with no active         *)
(* recursion context, or a Dict or Set builtin; every other request runs   *)
(* to its end and yields a seed.                                           *)
(***************************************************************************)
C4_PanicStep ==
    status' = "panicked" => FatalAtTop({"function", "pointer", "unimplemented"})

C5_AbortStep ==
    /\ (status = "running" /\ (FatalAtTop({"function"}) \/ FatalAtTop({"pointer"}))) =>
         /\ status' = "panicked"
         /\ panic' # ""
         /\ UNCHANGED <<module, builder, stack, retval>>
    /\ status # "panicked"

C5_Abort == [][C5_AbortStep]_vars

\* the panic of a RecursivePointer struct field below the top-level request
C5_Witness ==
    /\ status = "panicked"
    /\ FatalAtTop({"pointer"})
    /\ Top.fn = "hash_struct"

(***************************************************************************)
(* C6: the dispatcher, at any depth, aborts on a Dict or Set builtin with  *)
(* the not-yet-implemented failure: it returns no seed, emits nothing and  *)
(* no procedure is ever named after such a layout.                         *)
(***************************************************************************)
C6_TodoStep ==
    (status = "running" /\ FatalAtTop({"unimplemented"})) =>
      /\ status' = "panicked"
      /\ panic' \in {"not yet implemented: Implement hash for Dict",
                     "not yet implemented: Implement Hash for Set"}
      /\ UNCHANGED <<module, builder, stack, retval>>

C6_NotImplemented ==
    /\ [][C6_TodoStep]_vars
    /\ [](\A i \in Procedures :
            ~(module[i].name.k = "Builtin" /\ module[i].name.b \in {"Dict", "Set"}))

\* the failure reached below a list or struct
C6_Witness ==
    /\ status = "panicked"
    /\ FatalAtTop({"unimplemented"})
    /\ Len(stack) > 1

(***************************************************************************)
(* C7: below an activation that runs under Loop(u), every activation that  *)
(* carries a recursion context runs under a Loop context, and no           *)
(* RecursivePointer below it hits the fatal no-context case.               *)
(***************************************************************************)
HasContext(f) == f.fn \in {"build_hash_layout", "build_hash_struct", "build_hash_struct_help",
                           "hash_struct", "build_hash_list", "build_hash_list_help",
                           "hash_list"}

C7_ContextKept ==
    \A i, j \in 1..Len(stack) :
      (i < j /\ HasContext(stack[i]) /\ HasContext(stack[j])
         /\ stack[i].when_recursive # Unreachable)
      => stack[j].when_recursive # Unreachable

(***************************************************************************)
(* Vocabulary of C8 to C10: what the generated procedures compute          *)
(***************************************************************************)
StructProcedures == {i \in Procedures : module[i].name.k = "Struct"}
ListProcedures == {i \in Procedures : module[i].name.k = "Builtin"}
UnionProcedures == {i \in Procedures : module[i].name.k = "Union"}

\* the recursion contexts a procedure of the module can have been built under
Contexts == {Unreachable} \cup {Loop(module[i].name.union_layout) : i \in UnionProcedures}

\* the seed the procedure of that layout returns
ProcSeed(layout, seed, v) ==
    Run(module, get_function(module, FnName(layout)), seed, v).seed

\* hash(seed, v, layout, context): what the dispatcher generates for a layout
Hash(seed, v, layout, ctx) ==
    CASE layout.k = "Builtin" /\ layout.b \in ScalarBuiltins ->
           DICT_HASH(seed, v, stack_size(layout))
      [] layout.k = "Builtin" /\ layout.b = "Str" -> DICT_HASH_STR(seed, v)
      [] layout.k = "Builtin" /\ layout.b \in EmptyBuiltins -> seed
      [] layout.k = "RecursivePointer" -> ProcSeed(Union(ctx.union_layout), seed, v)
      [] OTHER -> ProcSeed(layout, seed, v)

\* seed_n of the chain seed_i = hash(seed_(i-1), field_i, layout_i, context)
RECURSIVE FoldFields(_, _, _, _, _)
FoldFields(seed, fields, field_layouts, ctx, n) ==
    IF n = 0 THEN seed
    ELSE Hash(FoldFields(seed, fields, field_layouts, ctx, n - 1),
              fields[n], field_layouts[n], ctx)

\* seed_n of the chain seed_i = hash(seed_(i-1), element_i)
RECURSIVE FoldElems(_, _, _, _, _)
FoldElems(seed, elems, element_layout, ctx, n) ==
    IF n = 0 THEN seed
    ELSE Hash(FoldElems(seed, elems, element_layout, ctx, n - 1),
              elems[n], element_layout, ctx)

\* the indexes of the extract_value instructions of a body, in program order
ExtractIndexes(fnrec) ==
    LET IsExtract(ins) == ins.op = "extract_value"
        extracts == SelectSeq(fnrec.blocks[1].instrs, IsExtract)
    IN  [j \in 1..Len(extracts) |-> extracts[j].index]

\* the labels of the blocks a run entered
Labels(m, trace) == [j \in 1..Len(trace) |-> m[trace[j][1]].blocks[trace[j][2]].label]

(***************************************************************************)
(* C8: the procedure of a struct with n fields extracts the fields at the  *)
(* indexes 0 .. n-1 in this order, each once, and returns seed_n of the    *)
(* chain seed_0 = input seed, seed_i = hash(seed_(i-1), field_i, layout_i, *)
(* context); with no field it returns the input seed.                      *)
(***************************************************************************)
C8_StructFold ==
    status = "idle" =>
      \A i \in StructProcedures :
        LET field_layouts == module[i].name.field_layouts
            n == Len(field_layouts)
        IN  /\ ExtractIndexes(module[i]) = [j \in 1..n |-> j - 1]
            /\ \E ctx \in Contexts :
                 /\ Values(module[i].name, ctx, MaxDepth, 1) # {}
                 /\ \A v \in Values(module[i].name, ctx, MaxDepth, 1) :
                      \A seed \in Seeds :
                        LET r == Run(module, i, seed, v)
                        IN  /\ r.ok
                            /\ r.seed = FoldFields(seed, v.fields, field_layouts, ctx, n)

\* the procedures of a struct of three fields, one of them a struct, and of
\* the struct without fields
C8_Witness ==
    /\ status = "idle"
    /\ get_function(module, FnName(Struct(<<Int8, Struct(IntStr), Int64>>))) # 0
    /\ get_function(module, FnName(Struct(<<>>))) # 0

(***************************************************************************)
(* C9: the procedure of a list returns, for a list of length L, seed_L of  *)
(* the chain seed_0 = input seed, seed_i = hash(seed_(i-1), element_i);    *)
(* each iteration hashes the element from the loaded accumulator with the  *)
(* element layout and the recursion context passed to the list, and the    *)
(* answer is stored back into the accumulator.                             *)
(***************************************************************************)
C9_Folds ==
    status = "idle" =>
      \A i \in ListProcedures :
        LET element_layout == module[i].name.element_layout IN
        \E ctx \in Contexts :
          /\ \E v \in Values(module[i].name, ctx, MaxDepth, 1) : Len(v.elems) >= 2
          /\ \A v \in Values(module[i].name, ctx, MaxDepth, 1) :
               \A seed \in Seeds :
                 LET r == Run(module, i, seed, v)
                 IN  /\ r.ok
                     /\ r.seed = FoldElems(seed, v.elems, element_layout, ctx, Len(v.elems))

C9_IterationStep ==
    Running("hash_list") =>
      IF Top.pc = "start"
      THEN LET e == stack'[Len(stack')]
               load == module'[builder'.fn].blocks[e.seed[2]].instrs[e.seed[3]]
           IN  /\ e.fn = "build_hash_layout"
               /\ e.layout = Top.element_layout
               /\ e.when_recursive = Top.when_recursive
               /\ e.seed[1] = "ins"
               /\ load.op = "load"
               /\ load.ptr = stack'[Len(stack') - 1].result
      ELSE \E k \in 1..Len(module'[builder.fn].blocks[builder.blk].instrs) :
             LET store == module'[builder.fn].blocks[builder.blk].instrs[k]
             IN  /\ k > Len(module[builder.fn].blocks[builder.blk].instrs)
                 /\ store.op = "store"
                 /\ store.ptr = Top.result
                 /\ store.val = retval

C9_ListFold == []C9_Folds /\ [][C9_IterationStep]_vars

\* the procedure of a list whose elements are recursion pointers, built
\* under the context of the enclosing union
C9_Witness ==
    /\ status = "idle"
    /\ get_function(module, FnName(List(RecursivePointer))) # 0

(***************************************************************************)
(* C10: the dispatcher returns the seed it was given for the four empty    *)
(* collection layouts and emits nothing; the procedure of a list, run on a *)
(* list of length zero, goes from its entry block to the done block only   *)
(* and returns the seed it was given, which is the empty-collection        *)
(* result for the same seed.                                               *)
(***************************************************************************)
C10_EmptyStep ==
    (Running("build_hash_layout") /\ Top.layout.k = "Builtin"
       /\ Top.layout.b \in EmptyBuiltins) =>
      /\ retval' = Top.seed
      /\ stack' = Pop
      /\ UNCHANGED <<module, builder>>

C10_ZeroLength ==
    status = "idle" =>
      \A i \in ListProcedures :
        \A seed \in Seeds :
          LET r == Run(module, i, seed, ListV(<<>>))
          IN  /\ r.ok
              /\ r.seed = seed
              /\ Labels(module, r.trace) = <<"entry", "done">>

C10_EmptyIdentity == [][C10_EmptyStep]_vars /\ []C10_ZeroLength

\* a list procedure exists and the last request was for an empty collection
C10_Witness ==
    /\ status = "idle"
    /\ ListProcedures # {}
    /\ Len(requests) = 2
    /\ requests[2].k = "Builtin"
    /\ requests[2].b \in EmptyBuiltins
    /\ retval = Param(0)

(***************************************************************************)
(* Vocabulary of C11 to C17: the union procedures                          *)
(***************************************************************************)
NullableProcedures ==
    {i \in UnionProcedures :
       module[i].name.union_layout.t \in {"NullableWrapped", "NullableUnwrapped"}}

\* the instructions that read through a pointer
LoadOps == {"load", "load_struct"}

\* the blocks of a run that hold an instruction with one of these operations
BlocksWith(m, trace, ops) ==
    {j \in 1..Len(trace) :
       \E k \in 1..Len(m[trace[j][1]].blocks[trace[j][2]].instrs) :
         m[trace[j][1]].blocks[trace[j][2]].instrs[k].op \in ops}

(***************************************************************************)
(* C11: the procedure of a NullableWrapped or NullableUnwrapped union      *)
(* starts with the null test of its value and branches on it; its entry    *)
(* block reads nothing through the pointer; run on the null pointer it     *)
(* goes entry, null block, merge block, executes no load and returns the   *)
(* seed it was given; run on another pointer it goes to the other block.   *)
(***************************************************************************)
C11_NullTestFirst ==
    status = "idle" =>
      \A i \in NullableProcedures :
        LET entry == module[i].blocks[1].instrs IN
        /\ Len(entry) >= 2
        /\ entry[1].op = "is_null"
        /\ entry[1].val = Param(1)
        /\ \A k \in 1..Len(entry) : entry[k].op \notin LoadOps
        /\ entry[Len(entry)].op = "cond_br"
        /\ entry[Len(entry)].cond = <<"ins", 1, 1>>
        /\ \A seed \in Seeds :
             LET r == Run(module, i, seed, NullV)
             IN  /\ r.ok
                 /\ r.seed = seed
                 /\ Labels(module, r.trace) = <<"entry", "hash_null_block", "merge_block">>
                 /\ BlocksWith(module, r.trace, LoadOps) = {}
        /\ \A v \in Values(module[i].name, Unreachable, MaxDepth, 1) \ {NullV} :
             LET r == Run(module, i, <<>>, v)
             IN  /\ Len(r.trace) >= 2
                 /\ Labels(module, r.trace)[2] = "hash_other_block"
                 /\ 1 \notin BlocksWith(module, r.trace, LoadOps)

\* the procedures of a NullableWrapped and of a NullableUnwrapped union
C11_Witness ==
    /\ status = "idle"
    /\ \E i, j \in NullableProcedures :
         /\ module[i].name.union_layout.t = "NullableWrapped"
         /\ module[j].name.union_layout.t = "NullableUnwrapped"

(***************************************************************************)
(* C12: the procedure of a NonRecursive or Recursive union with N >= 1     *)
(* variants has N branch blocks; its switch names the blocks of the        *)
(* variants 0 .. N-2 as the cases 0 .. N-2 and the block of variant N-1 as *)
(* the default; the block of variant i views the value as the field struct *)
(* of variant i and calls the procedure of that struct; a value with the   *)
(* discriminant i goes from the entry block to the block of variant i.     *)
(***************************************************************************)
SwitchProcedures ==
    {i \in UnionProcedures :
       module[i].name.union_layout.t \in {"NonRecursive", "Recursive"}}

\* the switch that ends the entry block
SwitchOf(fnrec) == fnrec.blocks[1].instrs[Len(fnrec.blocks[1].instrs)]

\* the block the switch sends the discriminant j to
BranchBlock(fnrec, j) ==
    LET sw == SwitchOf(fnrec) IN
    IF j < Len(sw.cases) THEN sw.cases[j + 1][2] ELSE sw.default

\* the discriminant of a value of a NonRecursive or Recursive union
Discriminant(v) == IF Is(v, "tag_id") THEN v.tag_id ELSE v.ptr_tag

C12_Switch ==
    status = "idle" =>
      \A i \in SwitchProcedures :
        LET tags == module[i].name.union_layout.tags
            N == Len(tags)
            sw == SwitchOf(module[i])
            branches == {b \in 1..Len(module[i].blocks) :
                           module[i].blocks[b].label = "tag_id_modify"}
        IN  /\ N >= 1
            /\ sw.op = "switch"
            /\ Len(sw.cases) = N - 1
            /\ \A j \in 1..(N - 1) : sw.cases[j][1] = Const(j - 1)
            /\ Cardinality(branches) = N
            /\ {BranchBlock(module[i], j) : j \in 0..(N - 1)} = branches
            /\ \A j \in 0..(N - 1) :
                 LET instrs == module[i].blocks[BranchBlock(module[i], j)].instrs IN
                 /\ \E k \in 1..Len(instrs) :
                      /\ instrs[k].op \in {"cast_block_of_memory_to_tag", "load_struct"}
                      /\ instrs[k].ty = Struct(tags[j + 1])
                 /\ \E k \in 1..Len(instrs) :
                      /\ instrs[k].op = "call"
                      /\ module[instrs[k].callee].name = FnName(Struct(tags[j + 1]))
            /\ \A v \in Values(module[i].name, Unreachable, MaxDepth, 1) :
                 LET r == Run(module, i, <<>>, v)
                 IN  /\ Len(r.trace) >= 2
                     /\ r.trace[2] = <<i, BranchBlock(module[i], Discriminant(v))>>
                     /\ Discriminant(v) \in 0..(N - 1)

\* a Recursive union with two variants and a NonRecursive union with one
\* variant, both generated
C12_Witness ==
    /\ status = "idle"
    /\ \E i, j \in SwitchProcedures :
         /\ module[i].name = Union(RecTree)
         /\ module[j].name = Union(Single)

(***************************************************************************)
(* C13: every union procedure has one merge block, made of the phi and the *)
(* return of the phi; every branch block (a variant's block, the null      *)
(* block, the block of the only variant) ends with an unconditional jump   *)
(* to the merge block and nothing else leads there; the phi has one        *)
(* incoming pair per jumping block, the pair names that block and a seed   *)
(* available in it; running the procedure ends in the merge block and     *)
(* returns the seed of the branch the value takes.                         *)
(***************************************************************************)
MergeBlocks(fnrec) ==
    {b \in 1..Len(fnrec.blocks) : fnrec.blocks[b].label = "merge_block"}

LastInstr(fnrec, b) == fnrec.blocks[b].instrs[Len(fnrec.blocks[b].instrs)]

\* the blocks that end with an unconditional jump to block mb
JumpsTo(fnrec, mb) ==
    {b \in 1..Len(fnrec.blocks) :
       /\ fnrec.blocks[b].instrs # <<>>
       /\ LastInstr(fnrec, b).op = "br"
       /\ LastInstr(fnrec, b).dest = mb}

\* the blocks in which a variant, or the null pointer, is hashed
BranchBlocks(fnrec) ==
    LET t == fnrec.name.union_layout.t IN
    {b \in 1..Len(fnrec.blocks) :
       \/ fnrec.blocks[b].label \in {"tag_id_modify", "hash_null_block"}
       \/ fnrec.blocks[b].label = "hash_other_block" /\ t = "NullableUnwrapped"
       \/ fnrec.blocks[b].label = "entry" /\ t = "NonNullableUnwrapped"}

\* the targets of the conditional branches and switches of a procedure
ConditionalTargets(fnrec) ==
    UNION {LET ins == LastInstr(fnrec, b) IN
           CASE ins.op = "cond_br" -> {ins.then, ins.else}
             [] ins.op = "switch" ->
                  {ins.default} \cup {ins.cases[c][2] : c \in 1..Len(ins.cases)}
             [] OTHER -> {} :
           b \in {x \in 1..Len(fnrec.blocks) : fnrec.blocks[x].instrs # <<>>}}

\* the field layouts of the variant a non-null value of the union is of
VariantFields(u, v) ==
    CASE u.t \in {"NonRecursive", "Recursive"} -> u.tags[Discriminant(v) + 1]
      [] u.t = "NullableWrapped" -> u.other_tags[v.ptr_tag + 1]
      [] u.t = "NullableUnwrapped" -> Tail(u.other_fields)
      [] u.t = "NonNullableUnwrapped" -> u.field_layouts

\* the seed of the branch a value takes: the given seed for the null
\* pointer, else what the procedure of the variant's struct returns
BranchSeed(u, seed, v) ==
    IF Is(v, "null") THEN seed
    ELSE ProcSeed(Struct(VariantFields(u, v)), seed,
                  IF Is(v, "data") THEN v.data ELSE v.pointee)

C13_Merge ==
    status = "idle" =>
      \A i \in UnionProcedures :
        /\ Cardinality(MergeBlocks(module[i])) = 1
        /\ LET mb == CHOOSE b \in MergeBlocks(module[i]) : TRUE
               merge == module[i].blocks[mb].instrs
               phi == merge[1]
           IN  /\ Len(merge) = 2
               /\ phi.op = "phi"
               /\ merge[2].op = "ret"
               /\ merge[2].val = <<"ins", mb, 1>>
               /\ JumpsTo(module[i], mb) = BranchBlocks(module[i])
               /\ mb \notin ConditionalTargets(module[i])
               /\ Len(phi.incoming) = Cardinality(BranchBlocks(module[i]))
               /\ {phi.incoming[n][2] : n \in 1..Len(phi.incoming)} = BranchBlocks(module[i])
               /\ \A n \in 1..Len(phi.incoming) :
                    LET answer == phi.incoming[n][1]
                        block == phi.incoming[n][2]
                    IN  \/ answer = Param(0)
                        \/ /\ answer[1] = "ins"
                           /\ answer[2] = block
                           /\ module[i].blocks[block].instrs[answer[3]].op = "call"
               /\ \A v \in Values(module[i].name, Unreachable, MaxDepth, 1) :
                    LET r == Run(module, i, <<>>, v)
                    IN  r.ok =>
                          /\ r.trace[Len(r.trace)] = <<i, mb>>
                          /\ r.seed = BranchSeed(module[i].name.union_layout, <<>>, v)

\* finished procedures of a union with a null branch and a switch and of a
\* union with a single branch
C13_Witness ==
    /\ status = "idle"
    /\ \E i, j \in UnionProcedures :
         /\ module[i].name.union_layout.t = "NullableWrapped"
         /\ module[j].name.union_layout.t = "NonNullableUnwrapped"

(***************************************************************************)
(* C14: in the procedure of a nullable union the null block only jumps to  *)
(* the merge block and its phi pair is the seed parameter; for two         *)
(* NullableWrapped, or two NullableUnwrapped, layouts that differ only in  *)
(* the nullable index, the two procedures return the same seed, the given  *)
(* one, for the null pointer.                                              *)
(***************************************************************************)
\* two layouts of nullable unions that differ at most in the nullable index
SameButNullable(a, b) ==
    /\ a.union_layout.t = b.union_layout.t
    /\ [a.union_layout EXCEPT !.nullable_id = b.union_layout.nullable_id] = b.union_layout

NullBlockOf(fnrec) ==
    CHOOSE b \in 1..Len(fnrec.blocks) : fnrec.blocks[b].label = "hash_null_block"

\* the seed the merge phi takes when the run comes from block b
IncomingFrom(fnrec, b) ==
    LET mb == CHOOSE x \in MergeBlocks(fnrec) : TRUE
        phi == fnrec.blocks[mb].instrs[1]
        n == CHOOSE x \in 1..Len(phi.incoming) : phi.incoming[x][2] = b
    IN  phi.incoming[n][1]

C14_NullIndependent ==
    status = "idle" =>
      /\ \A i \in NullableProcedures :
           LET nb == NullBlockOf(module[i]) IN
           /\ IncomingFrom(module[i], nb) = Param(0)
           /\ Len(module[i].blocks[nb].instrs) = 1
           /\ module[i].blocks[nb].instrs[1].op = "br"
      /\ \A i, j \in NullableProcedures :
           SameButNullable(module[i].name, module[j].name) =>
             \A seed \in Seeds :
               LET ri == Run(module, i, seed, NullV)
                   rj == Run(module, j, seed, NullV)
               IN  /\ ri.ok
                   /\ rj.ok
                   /\ ri.seed = rj.seed
                   /\ ri.seed = seed

\* the procedures of two layouts that differ only in the nullable index
C14_Witness ==
    /\ status = "idle"
    /\ \E i, j \in NullableProcedures :
         /\ i # j
         /\ SameButNullable(module[i].name, module[j].name)

(***************************************************************************)
(* C15: the procedure of the NullableUnwrapped union Nil | Cons(Int,       *)
(* pointer to self) mixes the Int of every Cons node once, outermost node  *)
(* first, and returns the seed for Nil: for Cons(1, Cons(2, Nil)) and seed *)
(* S it returns mix(mix(S, 1), 2).                                         *)
(***************************************************************************)
Nil == NullV
Cons(n, rest) == PtrV(0, StructV(<<IntV(n), rest>>))

\* the Ints of the Cons nodes of a list value, outermost first
RECURSIVE ConsInts(_)
ConsInts(v) ==
    IF v = Nil THEN <<>>
    ELSE <<v.pointee.fields[1]>> \o ConsInts(v.pointee.fields[2])

\* mix(... mix(mix(seed, ints[1]), ints[2]) ..., ints[n])
RECURSIVE MixAll(_, _, _)
MixAll(seed, ints, n) ==
    IF n = 0 THEN seed
    ELSE DICT_HASH(MixAll(seed, ints, n - 1), ints[n], stack_size(Int64))

C15_ConsFold ==
    status = "idle" =>
      \A i \in UnionProcedures :
        module[i].name = Union(ConsList) =>
          \A seed \in Seeds :
            /\ LET r == Run(module, i, seed, Cons(1, Cons(2, Nil))) IN
               /\ r.ok
               /\ r.seed = DICT_HASH(DICT_HASH(seed, IntV(1), stack_size(Int64)),
                                     IntV(2), stack_size(Int64))
            /\ \A v \in Values(Union(ConsList), Unreachable, MaxDepth, 1) :
                 LET r == Run(module, i, seed, v) IN
                 /\ r.ok
                 /\ r.seed = MixAll(seed, ConsInts(v), Len(ConsInts(v)))

(***************************************************************************)
(* C16: every generated procedure is declared with exactly two parameters  *)
(* and the seed type as its result type, every return instruction returns  *)
(* a value, and every call instruction of the module passes exactly two    *)
(* arguments, to a procedure of the module.                                *)
(***************************************************************************)
C16_Signature ==
    /\ \A i \in Procedures :
         /\ module[i].params = 2
         /\ module[i].return_type = seed_type
         /\ \A p \in ReturnsOf(module[i]) : InstrAt(module[i], p).val # NoValue
    /\ \A i \in 1..Len(module) :
         \A p \in Positions(module[i]) :
           LET ins == InstrAt(module[i], p) IN
           ins.op = "call" =>
             /\ Len(ins.args) = 2
             /\ ins.callee \in Procedures

\* a struct, a list and a union procedure, all called
C16_Witness ==
    /\ status = "idle"
    /\ StructProcedures # {}
    /\ ListProcedures # {}
    /\ UnionProcedures # {}
    /\ \A i \in Procedures : \E j \in 1..Len(module) : CallsTo(module[j], i) # {}

(***************************************************************************)
(* C17: the seed a requested layout's procedure returns is a function of   *)
(* the seed, the value and the layout alone: it is the seed of the         *)
(* procedures built for that layout with nothing built before, whatever    *)
(* was requested, and cached, earlier.                                     *)
(***************************************************************************)
\* the seed of (seed, v, layout) when every procedure below the layout is
\* built under the recursion context of its own call site
RECURSIVE FreshHash(_, _, _, _)
RECURSIVE FreshFold(_, _, _, _, _)
FreshHash(seed, v, layout, ctx) ==
    CASE layout.k = "Builtin" /\ layout.b \in ScalarBuiltins ->
           DICT_HASH(seed, v, stack_size(layout))
      [] layout.k = "Builtin" /\ layout.b = "Str" -> DICT_HASH_STR(seed, v)
      [] layout.k = "Builtin" /\ layout.b \in EmptyBuiltins -> seed
      [] layout.k = "Builtin" /\ layout.b = "List" ->
           FreshFold(seed, v.elems, [j \in 1..Len(v.elems) |-> layout.element_layout],
                     ctx, Len(v.elems))
      [] layout.k = "Struct" ->
           FreshFold(seed, v.fields, layout.field_layouts, ctx, Len(v.fields))
      [] layout.k = "Union" ->
           LET u == layout.union_layout
               inner == IF u.t = "NonRecursive" THEN Unreachable ELSE Loop(u)
           IN  IF Is(v, "null") THEN seed
               ELSE LET fields == IF Is(v, "data") THEN v.data.fields
                                  ELSE v.pointee.fields
                    IN  FreshFold(seed, fields, VariantFields(u, v), inner, Len(fields))
      [] layout.k = "RecursivePointer" ->
           FreshHash(seed, v, Union(ctx.union_layout), ctx)

FreshFold(seed, values, layouts, ctx, n) ==
    IF n = 0 THEN seed
    ELSE FreshHash(FreshFold(seed, values, layouts, ctx, n - 1),
                   values[n], layouts[n], ctx)

\* the requests that were answered with a call of a procedure
Answered == {n \in 1..Len(requests) : get_function(module, FnName(requests[n])) \in Procedures}

C17_Deterministic ==
    status = "idle" =>
      \A n \in Answered :
        \A seed \in Seeds :
          \A v \in Values(requests[n], Unreachable, MaxDepth, 1) :
            LET r == Run(module, get_function(module, FnName(requests[n])), seed, v) IN
            /\ r.ok
            /\ r.seed = FreshHash(seed, v, requests[n], Unreachable)

(***************************************************************************)
(* C18: calls on a Storage made by new_reference_counted().  A decrease    *)
(* that no prefix of the calls makes outnumber the increments returns      *)
(* false; a decrease returns true exactly when it finds the count at its   *)
(* initial value, which for a storage that is still reference counted is   *)
(* when the increments so far equal the decreases that returned false; a   *)
(* read-only storage (the count has run up to zero) answers false to every *)
(* decrease; a decrease that returns true leaves the storage as it was.    *)
(***************************************************************************)
CountCalls(k, Test(_)) == Cardinality({j \in 1..k : Test(calls[j])})
Increments(k) == LET T(c) == c.op = "increment_reference_count" IN CountCalls(k, T)
Decreases(k) == LET T(c) == c.op = "decrease" IN CountCalls(k, T)
DecreasesFalse(k) == LET T(c) == c.op = "decrease" /\ c.ret = "false" IN CountCalls(k, T)
DecreasesTrue(k) == LET T(c) == c.op = "decrease" /\ c.ret = "true" IN CountCalls(k, T)

DecreaseCalls == {k \in 1..Len(calls) : calls[k].op = "decrease"}

\* no prefix of the first k calls has more decreases than increments
Balanced(k) == \A j \in 1..k : Decreases(j) <= Increments(j)

C18_Decrease ==
    \A k \in DecreaseCalls :
      LET c == calls[k] IN
      /\ c.ret \in {"true", "false"}
      /\ Balanced(k) => c.ret = "false"
      /\ c.ret = "true" <=> c.before = ReferenceCounted(REFCOUNT_1)
      /\ c.before # Readonly => (c.ret = "true" <=> Increments(k) = DecreasesFalse(k - 1))
      /\ c.before = Readonly => c.ret = "false" /\ c.after = Readonly
      /\ c.ret = "true" => c.after = c.before

\* C18 as stated: every decrease, as long as none has returned true before,
\* returns true exactly when the decreases so far outnumber the increments
C18_Original ==
    \A k \in DecreaseCalls :
      LET c == calls[k] IN
      /\ Balanced(k) => c.ret = "false"
      /\ DecreasesTrue(k - 1) = 0 => (c.ret = "true" <=> Decreases(k) > Increments(k))
      /\ c.ret = "true" => c.after = c.before

\* increments and decreases in balance, then the decrease that returns true
C18_Witness ==
    \E k \in DecreaseCalls :
      /\ calls[k].ret = "true"
      /\ Increments(k) >= 1
      /\ Balanced(k - 1)
      /\ DecreasesFalse(k - 1) >= 1

(***************************************************************************)
(* C19: the text fmt_spaces appends to the buffer never holds three        *)
(* newline characters in a row, and at most two of its newline characters  *)
(* were pushed for Newline items.                                          *)
(***************************************************************************)
\* the positions of the buffer that the call has appended
Appended == (fmt.start + 1)..Len(buf)

\* the newline characters appended in the iterations of Newline items
NewlinesForNewline ==
    {k \in Appended : buf[k] = "\n" /\ fmt.spaces[origin[k].item] = Newline}

C19_TwoNewlines ==
    fmt.fn = "fmt_spaces" =>
      /\ \A k \in Appended :
           k + 2 <= Len(buf) => ~(buf[k] = "\n" /\ buf[k + 1] = "\n" /\ buf[k + 2] = "\n")
      /\ Cardinality(NewlinesForNewline) <= 2

\* three or more Newline items, two newlines printed, the call finished
C19_Witness ==
    /\ fmt.fn = "fmt_spaces"
    /\ fmt.returned
    /\ Cardinality({i \in 1..Len(fmt.spaces) : fmt.spaces[i] = Newline}) >= 3
    /\ Cardinality(NewlinesForNewline) = 2

(***************************************************************************)
(* C20: the text fmt_condition_spaces appends is empty or ends with the    *)
(* text of a comment; the iteration of a Newline item pushes no text of    *)
(* its own; a newline with its indentation is pushed only when a           *)
(* LineComment comes next, immediately before the text of that comment.    *)
(***************************************************************************)
\* the text of the comment item i ends at position k of the buffer
CommentEndsAt(i, k) ==
    LET text == <<"#">> \o fmt.spaces[i].comment IN
    /\ k - Len(text) >= fmt.start
    /\ SubSeq(buf, k - Len(text) + 1, k) = text
    /\ \A j \in (k - Len(text) + 1)..k : origin[j] = [item |-> i, part |-> "push"]

C20_NoFinalNewline ==
    fmt.fn = "fmt_condition_spaces" =>
      /\ \A k \in Appended :
           LET i == origin[k].item IN
           /\ origin[k].part = "push" => fmt.spaces[i].t = "LineComment"
           /\ origin[k].part = "newline" =>
                /\ i < Len(fmt.spaces)
                /\ fmt.spaces[i + 1].t = "LineComment"
                /\ buf[k] \in {"\n", " "}
                /\ k < Len(buf) =>
                     origin[k + 1] \in {[item |-> i, part |-> "newline"],
                                        [item |-> i + 1, part |-> "push"]}
      /\ fmt.returned =>
           \/ Appended = {}
           \/ /\ fmt.spaces[origin[Len(buf)].item].t = "LineComment"
              /\ CommentEndsAt(origin[Len(buf)].item, Len(buf))

\* a comment after a Newline and before the Newline that ends the input
C20_Witness ==
    /\ fmt.fn = "fmt_condition_spaces"
    /\ fmt.returned
    /\ fmt.indent = INDENT
    /\ Len(fmt.spaces) >= 3
    /\ fmt.spaces[Len(fmt.spaces)] = Newline
    /\ \E k \in Appended : origin[k].part = "newline"

(***************************************************************************)
(* C21: in the procedure of a pointer-encoded union every non-null variant *)
(* has a block that loads the pointee as the struct of all the fields of   *)
(* that variant and calls the procedure of that struct with the seed and   *)
(* the loaded struct; for NullableUnwrapped the fields are other_fields,   *)
(* none left out.                                                          *)
(***************************************************************************)
PointerProcedures ==
    {i \in UnionProcedures : module[i].name.union_layout.t # "NonRecursive"}

\* the field lists of the variants that are not null
NonNullVariants(u) ==
    CASE u.t = "Recursive" -> u.tags
      [] u.t = "NullableWrapped" -> u.other_tags
      [] u.t = "NullableUnwrapped" -> <<u.other_fields>>
      [] u.t = "NonNullableUnwrapped" -> <<u.field_layouts>>

\* block b loads the pointee as a struct of these fields and hashes it
HashesStruct(fnrec, b, field_layouts) ==
    LET instrs == fnrec.blocks[b].instrs IN
    \E k \in 1..Len(instrs) :
      /\ instrs[k].op = "load_struct"
      /\ instrs[k].ty = Struct(field_layouts)
      /\ \E c \in (k + 1)..Len(instrs) :
           /\ instrs[c].op = "call"
           /\ module[instrs[c].callee].name = FnName(Struct(field_layouts))
           /\ instrs[c].args[2] = <<"ins", b, k>>

C21_AllFields ==
    status = "idle" =>
      \A i \in PointerProcedures :
        LET variants == NonNullVariants(module[i].name.union_layout) IN
        \A j \in 1..Len(variants) :
          \E b \in 1..Len(module[i].blocks) : HashesStruct(module[i], b, variants[j])

(***************************************************************************)
(* C22: the struct procedure that the procedure of a pointer-encoded union *)
(* U calls for a variant hashes a RecursivePointer field by calling the    *)
(* procedure of U, the union of the call site, also when the struct        *)
(* procedure was found in the cache.                                       *)
(***************************************************************************)
\* the calls of a body that hash a RecursivePointer field: their value is
\* the field cast to the pointer of the union
RecursiveCalls(fnrec) ==
    {p \in Positions(fnrec) :
       LET ins == InstrAt(fnrec, p) IN
       /\ ins.op = "call"
       /\ ins.args[2][1] = "ins"
       /\ LET arg == InstrAt(fnrec, <<ins.args[2][2], ins.args[2][3]>>) IN
          /\ arg.op = "bitcast"
          /\ arg.name = "i64_to_opaque"}

\* the struct procedures that the body of a procedure calls
StructCallees(fnrec) ==
    {s \in StructProcedures : CallsTo(fnrec, s) # {}}

C22_CallerContext ==
    status = "idle" =>
      \A i \in PointerProcedures :
        \A s \in StructCallees(module[i]) :
          \A p \in RecursiveCalls(module[s]) :
            InstrAt(module[s], p).callee = i

(***************************************************************************)
(* C23: in the procedure of a NullableWrapped union with M >= 1 variants   *)
(* that are not null, the switch of the non-null branch has the cases      *)
(* 0 .. M-2, case d leading to the block that hashes other_tags[d], and    *)
(* the default leading to the block that hashes the last of other_tags; a  *)
(* pointee with the discriminant d < M-1 runs the block of case d, one     *)
(* with any other discriminant the default block, whatever the index of    *)
(* the null variant is.                                                    *)
(***************************************************************************)
NullableWrappedProcedures ==
    {i \in UnionProcedures : module[i].name.union_layout.t = "NullableWrapped"}

OtherBlockOf(fnrec) ==
    CHOOSE b \in 1..Len(fnrec.blocks) : fnrec.blocks[b].label = "hash_other_block"

\* discriminants beyond those of the variants
MaxDiscriminant == 3

\* the values that are not null, and those of the last variant with a
\* discriminant that names no variant
WithDiscriminants(layout, M) ==
    LET vs == Values(layout, Unreachable, MaxDepth, 1) \ {NullV} IN
    vs \cup {[v EXCEPT !.ptr_tag = d] :
               v \in {x \in vs : x.ptr_tag = M - 1}, d \in M..MaxDiscriminant}

C23_OtherTags ==
    status = "idle" =>
      \A i \in NullableWrappedProcedures :
        LET other_tags == module[i].name.union_layout.other_tags
            M == Len(other_tags)
            other == OtherBlockOf(module[i])
            sw == LastInstr(module[i], other)
            Target(d) == IF d < M - 1 THEN sw.cases[d + 1][2] ELSE sw.default
        IN  /\ M >= 1
            /\ sw.op = "switch"
            /\ Len(sw.cases) = M - 1
            /\ \A d \in 0..(M - 2) : sw.cases[d + 1][1] = Const(d)
            /\ \A d \in 0..(M - 1) : HashesStruct(module[i], Target(d), other_tags[d + 1])
            /\ \A v \in WithDiscriminants(module[i].name, M) :
                 LET r == Run(module, i, <<>>, v) IN
                 /\ Len(r.trace) >= 3
                 /\ r.trace[2] = <<i, other>>
                 /\ r.trace[3] = <<i, Target(v.ptr_tag)>>

\* the procedures of two unions with the null variant at index 0 and at 1
C23_Witness ==
    /\ status = "idle"
    /\ \E i, j \in NullableWrappedProcedures :
         /\ module[i].name.union_layout.nullable_id = 0
         /\ module[j].name.union_layout.nullable_id = 1

(***************************************************************************)
(* C24: build_hash_struct, build_hash_tag and build_hash_list keep the     *)
(* block the builder stood in when they were entered; when they return,    *)
(* on a hit as on a miss, the module differs from the one before the call  *)
(* instruction only by that instruction at the end of that block, the      *)
(* value returned is its result and the builder stands in that block.      *)
(***************************************************************************)
\* m2 is m1 with one call instruction more at the end of the block at pos
CallAppended(m1, m2, pos) ==
    LET old == m1[pos.fn].blocks[pos.blk].instrs
        new == m2[pos.fn].blocks[pos.blk].instrs
    IN  /\ Len(m2) = Len(m1)
        /\ Len(new) = Len(old) + 1
        /\ new[Len(new)].op = "call"
        /\ m1 = [m2 EXCEPT ![pos.fn].blocks[pos.blk].instrs = old]

C24_Step ==
    (status = "running" /\ stack # <<>> /\ Top.fn \in BuildFns) =>
      /\ Len(stack') = Len(stack) + 1 =>
           \* a miss: the block is kept while the body is built elsewhere
           /\ stack'[Len(stack)].block = builder
           /\ stack'[Len(stack)].fn = Top.fn
           /\ builder' = builder
      /\ Len(stack') = Len(stack) - 1 =>
           LET entry == IF Top.pc = "start" THEN builder ELSE Top.block IN
           /\ builder' = entry
           /\ CallAppended(module, module', entry)
           /\ retval' = NextValue(module, entry)

C24_InsertionPoint == [][C24_Step]_vars

\* back in the caller's block after a miss that built nested procedures,
\* one of them called from two bodies (a hit)
C24_Witness ==
    /\ status = "idle"
    /\ Len(module) >= 4
    /\ builder = [fn |-> 1, blk |-> 1]
    /\ LastInstr(module[1], 1).op = "call"
    /\ \E i \in Procedures :
         Cardinality({j \in 1..Len(module) : CallsTo(module[j], i) # {}}) >= 2

(***************************************************************************)
(* C25: after any calls of increment_reference_count and decrease on a     *)
(* Storage made by new_reference_counted() the storage is Readonly, or     *)
(* ReferenceCounted with a count from the least isize up to -1; an         *)
(* increment at the count -1 makes it Readonly; on a Readonly storage an   *)
(* increment does nothing and a decrease returns false and leaves it       *)
(* Readonly; no call panics and no sum goes out of the range of isize.     *)
(***************************************************************************)
InRange(st) == st = Readonly \/ (st.t = "ReferenceCounted" /\ st.rc \in MinIsize..(-1))

C25_NegativeCount ==
    /\ InRange(storage)
    /\ \A k \in 1..Len(calls) :
         LET c == calls[k] IN
         /\ InRange(c.before)
         /\ InRange(c.after)
         /\ c.ret # "panic"
         /\ c.before = Readonly =>
              /\ c.after = Readonly
              /\ c.ret = IF c.op = "decrease" THEN "false" ELSE "unit"
         /\ c.before # Readonly =>
              /\ isize_add(c.before.rc, 1) = {[panicked |-> FALSE, val |-> c.before.rc + 1]}
              /\ c.op = "increment_reference_count" =>
                   c.after = IF c.before.rc = -1 THEN Readonly
                             ELSE ReferenceCounted(c.before.rc + 1)
              /\ (c.op = "decrease" /\ c.ret = "false") =>
                   /\ isize_add(c.before.rc, -1) =
                        {[panicked |-> FALSE, val |-> c.before.rc - 1]}
                   /\ c.after = ReferenceCounted(c.before.rc - 1)

\* the increment at -1, then a decrease and an increment on the read-only storage
C25_Witness ==
    \E k \in 1..Len(calls) :
      /\ calls[k].op = "increment_reference_count"
      /\ calls[k].before = ReferenceCounted(-1)
      /\ calls[k].after = Readonly
      /\ \E j \in (k + 1)..Len(calls) : calls[j].op = "decrease"
      /\ \E j \in (k + 1)..Len(calls) : calls[j].op = "increment_reference_count"

====
